---- MODULE Spec2Model ----
(***************************************************************************)
(* Model of the INPI / Qard downloader scripts of bankdeposit_FRA.         *)
(*                                                                         *)
(*   Spec      main_pdf_2.py            multi-SIREN INPI downloader        *)
(*   SpecPdf   main_pdf.py,             single-SIREN INPI downloaders      *)
(*             main_pdf_json.py                                            *)
(*   SpecQard  qard_bulk_download.py    Qard bulk downloader               *)
(*                                                                         *)
(* The remote servers are the environment: every response of a GET and     *)
(* every outcome of a login is a nondeterministic input.                   *)
(***************************************************************************)
EXTENDS Integers, Sequences, FiniteSets, TLC

(***************************************************************************)
(* Bounds of the model.                                                    *)
(***************************************************************************)
\* largest number of valid SIRENs load_sirens may return
MaxSirens == 2
\* largest number of actes filter_actes may keep for one SIREN
MaxDocs == 2
\* number of distinct tokens the login endpoint hands out in one run
MaxTok == 3
\* deepest chain of re-entrant calls explored in main_pdf.py / main_pdf_json.py
MaxDepth == 3
\* largest number of pages iter_pages is followed through for one listing
MaxPages == 2
\* largest number of files pick_files may choose for one SIREN
MaxFiles == 2
\* largest number of rows of the CSV of qard_download_from_act_id.py
MaxRows == 2
\* resolution of the clock of the RateLimiter model: ticks per second
TicksPerSecond == 20
\* number of threads sharing one RateLimiter
NThreads == 2
\* number of calls of wait() followed on one RateLimiter
MaxWaits == 3
\* largest number of items behind a listing endpoint
MaxItems == 5
\* largest page size of a listing endpoint
MaxPageSize == 2
\* largest number of actes in the attachments of one SIREN
MaxActes == 2
\* largest k of sample_valid_sirens_in_range
MaxK == 2
\* largest number of tens between start9 and end9
MaxSpan == 2
\* largest number of lines of a SIREN file
MaxLines == 2
\* longest text given to normalize and norm
MaxTextLen == 2
\* longest token text
MaxTokLen == 2
\* largest lateness (ticks) of a return of wait() after the end of its sleep
MaxLate == 2

(***************************************************************************)
(* Program constants.                                                      *)
(***************************************************************************)
\* default of the parameter max_attempts of fetch_attachments / download_acte
max_attempts == 4
\* backoffs of fetch_attachments, base_backoffs of download_acte (seconds)
backoffs == <<3, 8, 20>>
base_backoffs == <<8, 20, 45>>

\* RANGE_START of siren_sampling.py
RANGE_START == 821000000

\* JSON_RPM and DOCS_RPM: the rpm of json_limiter and docs_limiter
JSON_RPM == 200
DOCS_RPM == 40

\* what iter_pages yields instead of an item: the body of a non-200 answer,
\* and the whole object when it has no list under a candidate key
ErrorBody == -1
WholeObject == -2

\* Python's None; a token read from an empty token file ("") is falsy as well
None == 0
\* token_file does not exist
NoFile == -1
\* the token found in token_file when a previous run left one
SavedTok == 1

(***************************************************************************)
(* What one GET can come back with.  "RequestException" stands for every   *)
(* requests.RequestException that is not a ConnectionError: a timeout, or  *)
(* the HTTPError raise_for_status() raises for a 4xx other than            *)
(* 401/403/429.                                                            *)
(***************************************************************************)
Responses == {"200", "401", "403", "429", "5xx", "ConnectionError", "RequestException"}

Min(a, b) == IF a < b THEN a ELSE b

VARIABLES
  \* ---- main_pdf_2.py ----
  pc,            \* position of main(): "main", "probe", "fetch", "download", "done"
  exitStatus,    \* -1 while running, else the exit status of the process
  sirens_file,   \* "missing" or "present": does the file sirens_file exist
  sirens,        \* len(sirens), the number of valid identifiers loaded
  idx,           \* index (1-based) of the SIREN being processed
  token,         \* main()'s variable token
  ltoken,        \* the local token (and Authorization header) of the running call
  store,         \* content of token_file
  issued,        \* last token handed out by the login endpoint
  attempt,       \* loop variable attempt of the running call
  docsLeft,      \* actes of actes_filtered not yet handed to download_acte
  call,          \* observation of the running / last call
  hist,          \* observation of the whole run
  summary,       \* main() printed "Done." and the two totals
  \* ---- main_pdf.py / main_pdf_json.py ----
  s_pc,          \* "main", "fetch", "download", "done"
  s_token,       \* main()'s variable token
  s_arg,         \* the parameter token of the innermost active frame
  s_depth,       \* number of nested re-entrant calls of the running function
  s_store,       \* content of token_file
  s_issued,      \* last token handed out by the login endpoint
  s_docsLeft,    \* actes of actes_filtered not yet downloaded
  s_call,        \* observation of the running / last top-level call
  s_hist,        \* observation of the whole run
  \* ---- qard_bulk_download.py ----
  q_pc,          \* "main", "auth", "find_pages", "find_query", "list", "download", "done"
  q_exit,        \* -1 while running, else the exit status of the process
  q_key,         \* API_KEY is a non-empty string
  q_file,        \* "missing" or "present": does the file args.sirens_file exist
  q_sirens,      \* len(sirens)
  q_idx,         \* index (1-based) of the SIREN being processed
  q_sub,         \* page of iter_pages / search key / listing route in use
  q_left,        \* files of chosen not yet downloaded
  q_hist,        \* observation of the whole run
  \* ---- qard_download_from_act_id.py ----
  a_pc,          \* "main", "auth", "load", "download", "done"
  a_exit,        \* -1 while running, else the exit status of the process
  a_key,         \* API_KEY is a non-empty string
  a_csv,         \* "missing" or "present": does the file args.csv_file exist
  a_rows,        \* len(rows) of the CSV file
  a_idx,         \* index (1-based) of the row being processed
  a_net,         \* a request was issued
  \* ---- RateLimiter (main_pdf_2.py) ----
  l_rpm,         \* the rpm the instance was built with
  l_clock,       \* time.time(), in ticks
  l_last_ts,     \* self.last_ts, in ticks
  l_lock,        \* holder of self.lock, 0 when it is free
  l_pc,          \* per thread: "out" of wait(), or "in" its with block
  l_wake,        \* per thread: end of the sleep requested by the running wait()
  l_new,         \* per thread: max(now, next_ok) of the running wait()
  l_count,       \* number of calls of wait() that returned
  l_lastRet,     \* time of the latest return of wait()
  l_gapRet,      \* time between the latest two returns of wait(), -1 before
  l_gapAdm,      \* difference of the latest two values of last_ts, -1 before
  \* ---- token file and login, text level (main_pdf_2.py, main_pdf.py, part_000) ----
  t_file,        \* the token file: {} when it does not exist, else {content}
  t_saved,       \* {token} passed to the latest save_token, {} after clear_token
  t_op,          \* the latest operation on the token file or login function
  t_loaded,      \* what the latest load_token returned: {} for None, else {text}
  t_login,       \* the latest call of a login function: who, answer, outcome
  \* ---- iter_pages (qard_bulk_download.py) ----
  p_server,      \* the listing endpoint: its behaviour, items, page size, last_page
  p_pc,          \* "idle", "run" (inside while True) or "done" (returned)
  p_page,        \* the local variable page
  p_reqs,        \* number of calls of get_json
  p_yield,       \* the items yielded so far, in order
  p_spin,        \* parity of the requests issued once the counters are at their cap
  \* ---- filter_actes and the downloads that follow (main_pdf_2.py, main_pdf.py,
  \*      main_pdf_json.py) ----
  f_variant,     \* the script that runs
  f_actes,       \* attachments_json["actes"]
  f_i,           \* number of actes the for loop of filter_actes went through
  f_filtered,    \* filtered: the positions in f_actes of the actes appended
  f_downloaded,  \* the positions in f_actes of the actes downloaded, in order
  \* ---- normalize (main_pdf_2.py, main_pdf.py, main_pdf_json.py) and norm
  \*      (pre-ocr_filter.py) ----
  n_x,           \* a text
  n_y,           \* another text
  n_pc,          \* "idle", "start", or "done" once a function was applied
  n_out,         \* the function applied, its results on n_x and n_y, and its
                 \* result on its own result on n_x
  \* ---- the identifier loaders (main_pdf_2.py, qard_bulk_download.py,
  \*      qard_setup_and_list_acts.py) ----
  r_script,      \* the script that runs
  r_lines,       \* the lines of the SIREN file
  r_i,           \* number of lines read
  r_sirens,      \* the identifiers loaded so far, in order
  r_requested,   \* the identifiers a request was issued for, in order
  \* ---- the JSON output of main_pdf_json.py ----
  j_pc,          \* "idle", "loop" (for acte in actes) or "written"
  j_actes,       \* actes: the typeRdd of the filtered documents, in listing order
  j_results,     \* what download_acte_base64 returned for the actes gone through
  j_output,      \* output
  j_file,        \* inpi_actes_<siren>.json: {} before json.dump, then {output}
  \* ---- sample_valid_sirens_in_range (siren_sampling.py) ----
  g_pc,          \* "idle", "loop" (while len(out) < k), "returned" or "raised"
  g_start,       \* start9
  g_end,         \* end9
  g_k,           \* k
  g_out,         \* out
  g_seen,        \* seen
  \* ---- pick_files and the downloads that follow (qard_bulk_download.py) ----
  k_pc,          \* "idle", "pick" (for f in files), "download" or "done"
  k_files,       \* files
  k_all,         \* download_all
  k_max,         \* max_files_per_user
  k_i,           \* number of files the for loop went through
  k_chosen,      \* chosen: (file_id, datatype) pairs
  k_downloaded,  \* the pairs download_file was called for, in order
  \* ---- the totals of main() (main_pdf_2.py) ----
  c_pc,          \* "idle", "list" (for idx, s in enumerate(sirens, 1)), "download", "stopped" or "done"
  c_idx,         \* idx
  c_actes,       \* actes_filtered: the ids of the actes
  c_i,           \* number of actes the inner for loop went through
  c_disk,        \* the files {siren}_{acte_id}.pdf that exist, as <<idx, acte_id>>
  total_found,   \* total_found
  total_downloaded, \* total_downloaded
  c_saved,       \* number of files download_acte wrote during this run
  \* ---- the token file and the token in use (main_pdf_2.py) ----
  u_pc,          \* "idle", "main", "probe", "fetch", "download" or "done"
  u_file,        \* content of token_file: {} when the file is absent
  u_token,       \* token of main(): {} for None
  u_local,       \* token of the running fetch_attachments / download_acte
  u_attempt,     \* attempt of the running call
  u_idx,         \* idx of main()
  u_docs,        \* actes of the SIREN still to download
  u_logins,      \* tokens the login endpoint handed out
  u_req          \* the last GET: the token it carried and the token file when it was sent

batchVars == <<pc, exitStatus, sirens_file, sirens, idx, token, ltoken, store,
               issued, attempt, docsLeft, call, hist, summary>>
singleVars == <<s_pc, s_token, s_arg, s_depth, s_store, s_issued, s_docsLeft,
                s_call, s_hist>>
qardVars == <<q_pc, q_exit, q_key, q_file, q_sirens, q_idx, q_sub, q_left, q_hist>>
actVars == <<a_pc, a_exit, a_key, a_csv, a_rows, a_idx, a_net>>
limVars == <<l_rpm, l_clock, l_last_ts, l_lock, l_pc, l_wake, l_new, l_count, l_lastRet,
            l_gapRet, l_gapAdm>>
authVars == <<t_file, t_saved, t_op, t_loaded, t_login>>
pageVars == <<p_server, p_pc, p_page, p_reqs, p_yield, p_spin>>
filterVars == <<f_variant, f_actes, f_i, f_filtered, f_downloaded>>
normVars == <<n_x, n_y, n_pc, n_out>>
loadVars == <<r_script, r_lines, r_i, r_sirens, r_requested>>
jsonVars == <<j_pc, j_actes, j_results, j_output, j_file>>
sampleVars == <<g_pc, g_start, g_end, g_k, g_out, g_seen>>
pickVars == <<k_pc, k_files, k_all, k_max, k_i, k_chosen, k_downloaded>>
countVars == <<c_pc, c_idx, c_actes, c_i, c_disk, total_found, total_downloaded, c_saved>>
storeVars == <<u_pc, u_file, u_token, u_local, u_attempt, u_idx, u_docs, u_logins, u_req>>
vars == <<batchVars, singleVars, qardVars, actVars, limVars, authVars, pageVars,
          filterVars, normVars, loadVars, jsonVars, sampleVars, pickVars, countVars,
          storeVars>>
\* what a step of one program leaves alone: the state of the other programs
notBatch == <<singleVars, qardVars, actVars, limVars, authVars, pageVars, filterVars,
              normVars, loadVars, jsonVars, sampleVars, pickVars, countVars, storeVars>>
notSingle == <<batchVars, qardVars, actVars, limVars, authVars, pageVars, filterVars,
               normVars, loadVars, jsonVars, sampleVars, pickVars, countVars, storeVars>>
notQard == <<batchVars, singleVars, actVars, limVars, authVars, pageVars, filterVars,
             normVars, loadVars, jsonVars, sampleVars, pickVars, countVars, storeVars>>
notAct == <<batchVars, singleVars, qardVars, limVars, authVars, pageVars, filterVars,
            normVars, loadVars, jsonVars, sampleVars, pickVars, countVars, storeVars>>
notLim == <<batchVars, singleVars, qardVars, actVars, authVars, pageVars, filterVars,
            normVars, loadVars, jsonVars, sampleVars, pickVars, countVars, storeVars>>
notAuth == <<batchVars, singleVars, qardVars, actVars, limVars, pageVars, filterVars,
             normVars, loadVars, jsonVars, sampleVars, pickVars, countVars, storeVars>>
notPage == <<batchVars, singleVars, qardVars, actVars, limVars, authVars, filterVars,
             normVars, loadVars, jsonVars, sampleVars, pickVars, countVars, storeVars>>
notFilter == <<batchVars, singleVars, qardVars, actVars, limVars, authVars, pageVars,
               normVars, loadVars, jsonVars, sampleVars, pickVars, countVars, storeVars>>
notNorm == <<batchVars, singleVars, qardVars, actVars, limVars, authVars, pageVars,
             filterVars, loadVars, jsonVars, sampleVars, pickVars, countVars, storeVars>>
notLoad == <<batchVars, singleVars, qardVars, actVars, limVars, authVars, pageVars,
             filterVars, normVars, jsonVars, sampleVars, pickVars, countVars, storeVars>>
notJson == <<batchVars, singleVars, qardVars, actVars, limVars, authVars, pageVars,
             filterVars, normVars, loadVars, sampleVars, pickVars, countVars, storeVars>>
notSample == <<batchVars, singleVars, qardVars, actVars, limVars, authVars, pageVars,
               filterVars, normVars, loadVars, jsonVars, pickVars, countVars, storeVars>>
notPick == <<batchVars, singleVars, qardVars, actVars, limVars, authVars, pageVars,
             filterVars, normVars, loadVars, jsonVars, sampleVars, countVars, storeVars>>
notCount == <<batchVars, singleVars, qardVars, actVars, limVars, authVars, pageVars,
              filterVars, normVars, loadVars, jsonVars, sampleVars, pickVars, storeVars>>
notStore == <<batchVars, singleVars, qardVars, actVars, limVars, authVars, pageVars,
              filterVars, normVars, loadVars, jsonVars, sampleVars, pickVars, countVars>>

(***************************************************************************)
(* Token store and login (main_pdf_2.py, sections 2 and 3).                *)
(***************************************************************************)
\* load_token(): None when the file is absent, else its content
load_token(st) == IF st = NoFile THEN None ELSE st

\* clear_token(): the file is removed when it exists
clear_token(st) == NoFile

\* save_token(token)
save_token(tok) == tok

\* login(): on success the new token is saved and returned; on a failed
\* POST or a body without token, None is returned and the file is untouched.
\* ok is the outcome of the POST, st the file, last the last token issued.
login(ok, st, last) ==
  IF ok
    THEN [ret |-> last + 1, store |-> save_token(last + 1), issued |-> last + 1]
    ELSE [ret |-> None, store |-> st, issued |-> last]

\* get_token(): the saved token when there is one, else login()
get_token(ok, st, last) ==
  IF load_token(st) # None
    THEN [ret |-> load_token(st), store |-> st, issued |-> last, posted |-> FALSE]
    ELSE [ret |-> login(ok, st, last).ret, store |-> login(ok, st, last).store,
          issued |-> login(ok, st, last).issued, posted |-> TRUE]

\* a or b
Or(a, b) == IF a # None THEN a ELSE b


(***************************************************************************)
(* Observation of the run.  hist and call record what the environment      *)
(* sees: which requests were issued, with which token, after which events. *)
(***************************************************************************)
NewHist ==
  [quota |-> FALSE,             \* some GET of the run was answered 429
   netAfterQuota |-> FALSE,     \* a GET or login POST was issued after a 429
   loginFailed |-> FALSE,       \* some login() of the run returned None
   netAfterLoginFail |-> FALSE, \* a GET or login POST was issued after that
   freshTok |-> None,           \* token returned by the last successful re-login
   reqTok |-> None,             \* token carried by the last GET
   reqSinceLogin |-> FALSE,     \* a GET was issued since the last successful re-login
   listed |-> 0,                \* SIRENs whose listing was requested
   net |-> FALSE]               \* a GET or login POST was issued

NewCall(kind) ==
  [kind |-> kind,        \* "none", "probe", "fetch" or "download"
   resps |-> << >>,      \* the responses to the GETs of the call, in order
   logins |-> 0,         \* login POSTs issued by the call
   sleeps |-> << >>,     \* base delays of the backoff sleeps of the call
   saves |-> 0,          \* files written by the call
   pending |-> FALSE,    \* a re-login succeeded and no GET was issued since
   result |-> "running"] \* "running", "ok", "fail" (returned) or "stop" (SystemExit)

\* requests.get(url, headers=headers, ...) carrying token tok
HGet(h, tok) ==
  [h EXCEPT !.netAfterQuota = @ \/ h.quota,
            !.netAfterLoginFail = @ \/ h.loginFailed,
            !.reqTok = tok,
            !.reqSinceLogin = TRUE,
            !.net = TRUE]

\* the status of the response is read
HResp(h, resp) == [h EXCEPT !.quota = @ \/ (resp = "429")]

\* requests.post(login_url, ...) made by login(), returning ret; reauth: the
\* login replaces a token that was in use (it is not the first login of
\* get_token)
HLogin(h, ret, reauth) ==
  [h EXCEPT !.netAfterQuota = @ \/ h.quota,
            !.netAfterLoginFail = @ \/ h.loginFailed,
            !.loginFailed = @ \/ (ret = None),
            !.freshTok = IF ret # None /\ reauth THEN ret ELSE @,
            !.reqSinceLogin = IF ret # None /\ reauth THEN FALSE ELSE @,
            !.net = TRUE]

\* outcomes the login endpoint can have once `last` tokens were handed out
LoginOutcomes(last) == IF last < MaxTok THEN BOOLEAN ELSE {FALSE}

(***************************************************************************)
(* validate_or_refresh_token (main_pdf_2.py).                              *)
(***************************************************************************)
\* the branch taken for a response of the probe
ProbeDecision(resp) ==
  CASE resp = "401" -> "relogin"
    [] resp = "429" -> "stop"
    [] resp = "200" -> "ok"
    [] OTHER -> "relogin"   \* raise_for_status() or the GET raised: except branch

(***************************************************************************)
(* fetch_attachments (main_pdf_2.py): one iteration of the attempt loop.   *)
(***************************************************************************)
\* FetchDecision without the 429 branch: the 429 reaches raise_for_status()
FetchDecision_No429(resp, att) ==
  CASE resp = "401" -> "relogin"
    [] resp = "403" -> "skip"
    [] resp = "200" -> "success"
    [] OTHER -> IF att < max_attempts THEN "backoff" ELSE "giveup"

\* FetchDecision with 403 handled by the 401 branch
FetchDecision_403Relogin(resp, att) ==
  CASE resp \in {"401", "403"} -> "relogin"
    [] resp = "429" -> "stop"
    [] resp = "200" -> "success"
    [] OTHER -> IF att < max_attempts THEN "backoff" ELSE "giveup"

\* the branch of the loop body taken for a response at attempt att
FetchDecision(resp, att) ==
  CASE resp = "401" -> "relogin"
    [] resp = "429" -> "stop"
    [] resp = "403" -> "skip"
    [] resp = "200" -> "success"
    [] OTHER -> IF att < max_attempts THEN "backoff" ELSE "giveup"

\* BackoffWait indexing with attempt instead of attempt - 1
BackoffWait_OffByOne(sched, att) == sched[Min(att, Len(sched) - 1) + 1]

\* wait = backoffs[min(attempt - 1, len(backoffs) - 1)]  (Python indexes from 0)
BackoffWait(sched, att) == sched[Min(att - 1, Len(sched) - 1) + 1]

\* One iteration with local token t, token file st, last issued token last.
\* next: "continue" (next iteration), "return" or "exit" (SystemExit(2));
\* json: the first component returned is a JSON object; tok: the local token
\* after the iteration, which is the token returned when next = "return";
\* posted: login() was called, lret: what it returned.
FetchIter(resp, ok, att, t, st, last) ==
  LET d  == FetchDecision(resp, att)
      lg == login(ok, clear_token(st), last)
      same == [next |-> "return", json |-> FALSE, tok |-> t, store |-> st,
               issued |-> last, sleep |-> 0, posted |-> FALSE, lret |-> None]
  IN  CASE d = "relogin" ->
             IF lg.ret = None
               THEN [same EXCEPT !.tok = None, !.store = lg.store,
                                 !.issued = lg.issued, !.posted = TRUE]
               ELSE [same EXCEPT !.next = "continue", !.tok = lg.ret,
                                 !.store = lg.store, !.issued = lg.issued,
                                 !.posted = TRUE, !.lret = lg.ret]
        [] d = "stop"    -> [same EXCEPT !.next = "exit"]
        [] d = "skip"    -> same
        [] d = "backoff" -> [same EXCEPT !.next = "continue",
                                         !.sleep = BackoffWait(backoffs, att)]
        [] d = "giveup"  -> same
        [] d = "success" -> [same EXCEPT !.json = TRUE]

(***************************************************************************)
(* download_acte (main_pdf_2.py): one iteration of the attempt loop.       *)
(***************************************************************************)
DownloadDecision(resp, att) ==
  CASE resp = "401" -> "relogin"
    [] resp = "429" -> "stop"
    [] resp = "403" -> "skip"
    [] resp = "200" -> "success"
    [] OTHER -> IF att < max_attempts THEN "backoff" ELSE "giveup"

\* saved: the file <siren>_<id>.pdf was written by this iteration
DownloadIter(resp, ok, att, t, st, last) ==
  LET d  == DownloadDecision(resp, att)
      lg == login(ok, clear_token(st), last)
      same == [next |-> "return", saved |-> FALSE, tok |-> t, store |-> st,
               issued |-> last, sleep |-> 0, posted |-> FALSE, lret |-> None]
  IN  CASE d = "relogin" ->
             IF lg.ret = None
               THEN [same EXCEPT !.store = lg.store, !.issued = lg.issued,
                                 !.posted = TRUE]
               ELSE [same EXCEPT !.next = "continue", !.tok = lg.ret,
                                 !.store = lg.store, !.issued = lg.issued,
                                 !.posted = TRUE, !.lret = lg.ret]
        [] d = "stop"    -> [same EXCEPT !.next = "exit"]
        [] d = "skip"    -> same
        [] d = "backoff" -> [same EXCEPT !.next = "continue",
                                         !.sleep = BackoffWait(base_backoffs, att)]
        [] d = "giveup"  -> same
        [] d = "success" -> [same EXCEPT !.saved = TRUE]

\* the observation of a call after one iteration r answered resp; ended: the
\* call returned or left its loop
CallAfter(c, resp, r, ended) ==
  [c EXCEPT !.resps = Append(@, resp),
            !.logins = IF r.posted THEN @ + 1 ELSE @,
            !.sleeps = IF r.sleep > 0 THEN Append(@, r.sleep) ELSE @,
            !.saves = IF "saved" \in DOMAIN r /\ r.saved THEN @ + 1 ELSE @,
            !.pending = r.posted /\ r.next = "continue",
            !.result = IF r.next = "exit" THEN "stop"
                       ELSE IF ~ended THEN "running"
                       ELSE IF ("json" \in DOMAIN r /\ r.json)
                               \/ ("saved" \in DOMAIN r /\ r.saved) THEN "ok"
                       ELSE "fail"]


(***************************************************************************)
(* main() of main_pdf_2.py.                                                *)
(***************************************************************************)
\* load_sirens(path): the lengths the returned list can have; a missing file
\* gives the empty list, a file gives its valid lines
load_sirens(file) == IF file = "missing" THEN {0} ELSE 0..MaxSirens

Init ==
  /\ pc = "main"
  /\ exitStatus = -1
  /\ sirens_file \in {"missing", "present"}
  /\ sirens \in load_sirens(sirens_file)
  /\ summary = FALSE
  /\ idx = 0
  /\ token = None
  /\ ltoken = None
  /\ store \in {NoFile, SavedTok}
  /\ issued = SavedTok
  /\ attempt = 1
  /\ docsLeft = 0
  /\ call = NewCall("none")
  /\ hist = NewHist

\* load_sirens, get_token: main() returns when there is no SIREN or no token
MainStart ==
  /\ pc = "main"
  /\ \E ok \in LoginOutcomes(issued) :
       LET g == get_token(ok, store, issued)
       IN  IF sirens = 0
             THEN /\ pc' = "done" /\ exitStatus' = 0
                  /\ UNCHANGED <<token, store, issued, hist>>
             ELSE /\ token' = g.ret
                  /\ store' = g.store
                  /\ issued' = g.issued
                  /\ hist' = IF g.posted THEN HLogin(hist, g.ret, FALSE) ELSE hist
                  /\ IF g.ret = None
                       THEN pc' = "done" /\ exitStatus' = 0
                       ELSE pc' = "probe" /\ exitStatus' = exitStatus
  /\ UNCHANGED <<sirens_file, sirens, idx, ltoken, attempt, docsLeft, call, summary>>
  /\ UNCHANGED notBatch

\* token = validate_or_refresh_token(token, sirens[0]); then the loop starts
Probe ==
  /\ pc = "probe"
  /\ \E resp \in Responses, ok \in LoginOutcomes(issued) :
       /\ LET d  == ProbeDecision(resp)
              lg == login(ok, clear_token(store), issued)
              h1 == HResp(HGet(hist, token), resp)
          IN  CASE d = "ok" ->
                  /\ pc' = "fetch" /\ idx' = 1
                  /\ hist' = h1
                  /\ UNCHANGED <<exitStatus, token, store, issued>>
             [] d = "stop" ->
                  /\ pc' = "done" /\ exitStatus' = 2
                  /\ hist' = h1
                  /\ UNCHANGED <<idx, token, store, issued>>
             [] d = "relogin" ->
                  /\ token' = lg.ret
                  /\ store' = lg.store
                  /\ issued' = lg.issued
                  /\ hist' = HLogin(h1, lg.ret, TRUE)
                  /\ IF lg.ret = None
                       THEN pc' = "done" /\ exitStatus' = 0 /\ idx' = idx
                       ELSE pc' = "fetch" /\ exitStatus' = exitStatus /\ idx' = 1
       /\ call' = [NewCall("probe") EXCEPT
                     !.resps = <<resp>>,
                     !.logins = IF ProbeDecision(resp) = "relogin" THEN 1 ELSE 0,
                     !.result = "ok"]
  /\ attempt' = 1
  /\ UNCHANGED <<sirens_file, sirens, ltoken, docsLeft, summary>>
  /\ UNCHANGED notBatch

\* the for loop of main() moves to the next SIREN, or main() prints the
\* totals and returns
NextSiren ==
  IF idx < sirens
    THEN pc' = "fetch" /\ idx' = idx + 1 /\ exitStatus' = exitStatus /\ summary' = summary
    ELSE pc' = "done" /\ idx' = idx /\ exitStatus' = 0 /\ summary' = TRUE

\* attachments, token = fetch_attachments(token, s): one iteration of its
\* loop; when the call returns, main() filters the actes (n are kept) and
\* goes on with the first download or with the next SIREN.
FetchAttempt ==
  /\ pc = "fetch"
  /\ \E resp \in Responses, ok \in LoginOutcomes(issued), n \in 0..MaxDocs :
       LET t  == IF attempt = 1 THEN token ELSE ltoken
           c0 == IF attempt = 1 THEN NewCall("fetch") ELSE call
           r  == FetchIter(resp, ok, attempt, t, store, issued)
           ended == r.next = "return" \/ (r.next = "continue" /\ attempt = max_attempts)
           h1 == HResp(HGet(hist, t), resp)
           h2 == IF r.posted THEN HLogin(h1, r.lret, TRUE) ELSE h1
       IN  /\ store' = r.store
           /\ issued' = r.issued
           /\ ltoken' = r.tok
           /\ hist' = [h2 EXCEPT !.listed = idx]
           /\ call' = CallAfter(c0, resp, r, ended)
           /\ IF r.next = "exit"
                THEN /\ pc' = "done" /\ exitStatus' = 2
                     /\ UNCHANGED <<idx, token, attempt, docsLeft, summary>>
              ELSE IF ~ended
                THEN /\ attempt' = attempt + 1
                     /\ UNCHANGED <<pc, exitStatus, idx, token, docsLeft, summary>>
              ELSE /\ token' = r.tok
                   /\ attempt' = 1
                   /\ IF r.json /\ n > 0
                        THEN /\ pc' = "download" /\ docsLeft' = n
                             /\ UNCHANGED <<idx, exitStatus, summary>>
                        ELSE NextSiren /\ docsLeft' = 0
  /\ UNCHANGED <<sirens_file, sirens>>
  /\ UNCHANGED notBatch

\* token = download_acte(token, s, acte) or prev_token: one iteration of the
\* loop of download_acte; when the call returns, main() goes on with the next
\* acte or with the next SIREN.
DownloadAttempt ==
  /\ pc = "download"
  /\ \E resp \in Responses, ok \in LoginOutcomes(issued) :
       LET t  == IF attempt = 1 THEN token ELSE ltoken
           c0 == IF attempt = 1 THEN NewCall("download") ELSE call
           r  == DownloadIter(resp, ok, attempt, t, store, issued)
           ended == r.next = "return" \/ (r.next = "continue" /\ attempt = max_attempts)
           h1 == HResp(HGet(hist, t), resp)
           h2 == IF r.posted THEN HLogin(h1, r.lret, TRUE) ELSE h1
       IN  /\ store' = r.store
           /\ issued' = r.issued
           /\ ltoken' = r.tok
           /\ hist' = h2
           /\ call' = CallAfter(c0, resp, r, ended)
           /\ IF r.next = "exit"
                THEN /\ pc' = "done" /\ exitStatus' = 2
                     /\ UNCHANGED <<idx, token, attempt, docsLeft, summary>>
              ELSE IF ~ended
                THEN /\ attempt' = attempt + 1
                     /\ UNCHANGED <<pc, exitStatus, idx, token, docsLeft, summary>>
              ELSE /\ token' = Or(r.tok, token)
                   /\ attempt' = 1
                   /\ docsLeft' = docsLeft - 1
                   /\ IF docsLeft > 1
                        THEN UNCHANGED <<pc, idx, exitStatus, summary>>
                        ELSE NextSiren
  /\ UNCHANGED <<sirens_file, sirens>>
  /\ UNCHANGED notBatch


(***************************************************************************)
(* main_pdf.py and main_pdf_json.py: single-SIREN downloaders.  Both have  *)
(* the same main(), fetch_attachments and download function               *)
(* (download_acte / download_acte_base64); on a 401 the function logs in   *)
(* and calls itself with the new token.                                    *)
(***************************************************************************)
\* the branch taken by fetch_attachments / download_acte for a response
SingleDecision(resp) ==
  CASE resp = "401" -> "relogin"
    [] resp = "200" -> "success"
    [] OTHER -> "fail"      \* raise_for_status() or the GET raised: except branch

\* One frame of fetch_attachments(token) / download_acte(token, acte) called
\* with token arg.  next: "recurse" (the function calls itself with tok) or
\* "return"; ok: the value returned is a result (JSON, saved file, base64).
SingleFrame(resp, loginOk, arg, st, last) ==
  LET d  == SingleDecision(resp)
      lg == login(loginOk, clear_token(st), last)
      same == [next |-> "return", ok |-> FALSE, tok |-> arg, store |-> st,
               issued |-> last, posted |-> FALSE, lret |-> None]
  IN  CASE d = "relogin" ->
             IF lg.ret = None
               THEN [same EXCEPT !.store = lg.store, !.issued = lg.issued,
                                 !.posted = TRUE]
               ELSE [same EXCEPT !.next = "recurse", !.tok = lg.ret,
                                 !.store = lg.store, !.issued = lg.issued,
                                 !.posted = TRUE, !.lret = lg.ret]
        [] d = "success" -> [same EXCEPT !.ok = TRUE]
        [] d = "fail"    -> same

\* the observation of a top-level call after one frame r answered resp
SCallAfter(c, resp, r) ==
  [c EXCEPT !.resps = Append(@, resp),
            !.logins = IF r.posted THEN @ + 1 ELSE @,
            !.pending = r.posted /\ r.next = "recurse",
            !.result = IF r.next = "recurse" THEN "running"
                       ELSE IF r.ok THEN "ok" ELSE "fail"]

\* outcomes of the login endpoint that the exploration follows: a success
\* inside a frame at depth MaxDepth would open a frame beyond the bound
SLoginOutcomes(last, depth) ==
  IF last < MaxTok /\ depth < MaxDepth THEN BOOLEAN ELSE {FALSE}

SingleIdle ==
  /\ s_pc = "idle" /\ s_token = None /\ s_arg = None /\ s_depth = 0
  /\ s_store = NoFile /\ s_issued = SavedTok /\ s_docsLeft = 0
  /\ s_call = NewCall("none") /\ s_hist = NewHist

BatchIdle ==
  /\ pc = "idle" /\ exitStatus = -1 /\ sirens_file = "missing" /\ sirens = 0
  /\ summary = FALSE /\ idx = 0 /\ token = None
  /\ ltoken = None /\ store = NoFile /\ issued = SavedTok /\ attempt = 1
  /\ docsLeft = 0 /\ call = NewCall("none") /\ hist = NewHist

SingleInit ==
  /\ s_pc = "main"
  /\ s_token = None
  /\ s_arg = None
  /\ s_depth = 0
  /\ s_store \in {NoFile, SavedTok}
  /\ s_issued = SavedTok
  /\ s_docsLeft = 0
  /\ s_call = NewCall("none")
  /\ s_hist = NewHist

\* token = get_token(); main() returns when there is none
SMainStart ==
  /\ s_pc = "main"
  /\ \E ok \in LoginOutcomes(s_issued) :
       LET g == get_token(ok, s_store, s_issued)
       IN  /\ s_token' = g.ret
           /\ s_store' = g.store
           /\ s_issued' = g.issued
           /\ s_hist' = IF g.posted THEN HLogin(s_hist, g.ret, FALSE) ELSE s_hist
           /\ s_pc' = IF g.ret = None THEN "done" ELSE "fetch"
  /\ UNCHANGED <<s_arg, s_depth, s_docsLeft, s_call>>
  /\ UNCHANGED notSingle

\* attachments = fetch_attachments(token): one frame; when the outermost
\* frame returns, main() filters the actes (n are kept) and starts the
\* downloads, or returns when there is no attachments JSON.
SFetchFrame ==
  /\ s_pc = "fetch"
  /\ \E resp \in Responses, ok \in SLoginOutcomes(s_issued, s_depth), n \in 0..MaxDocs :
       LET a  == IF s_depth = 0 THEN s_token ELSE s_arg
           c0 == IF s_depth = 0 THEN NewCall("fetch") ELSE s_call
           r  == SingleFrame(resp, ok, a, s_store, s_issued)
           h1 == HResp(HGet(s_hist, a), resp)
           h2 == IF r.posted THEN HLogin(h1, r.lret, TRUE) ELSE h1
       IN  /\ s_store' = r.store
           /\ s_issued' = r.issued
           /\ s_hist' = h2
           /\ s_call' = SCallAfter(c0, resp, r)
           /\ IF r.next = "recurse"
                THEN /\ s_depth' = s_depth + 1
                     /\ s_arg' = r.tok
                     /\ UNCHANGED <<s_pc, s_docsLeft>>
                ELSE /\ s_depth' = 0
                     /\ s_arg' = None
                     /\ IF r.ok /\ n > 0
                          THEN s_pc' = "download" /\ s_docsLeft' = n
                          ELSE s_pc' = "done" /\ s_docsLeft' = 0
  /\ UNCHANGED s_token
  /\ UNCHANGED notSingle

\* download_acte(token, acte) / download_acte_base64(token, acte): one frame;
\* when the outermost frame returns, main() goes on with the next acte.
SDownloadFrame ==
  /\ s_pc = "download"
  /\ \E resp \in Responses, ok \in SLoginOutcomes(s_issued, s_depth) :
       LET a  == IF s_depth = 0 THEN s_token ELSE s_arg
           c0 == IF s_depth = 0 THEN NewCall("download") ELSE s_call
           r  == SingleFrame(resp, ok, a, s_store, s_issued)
           h1 == HResp(HGet(s_hist, a), resp)
           h2 == IF r.posted THEN HLogin(h1, r.lret, TRUE) ELSE h1
       IN  /\ s_store' = r.store
           /\ s_issued' = r.issued
           /\ s_hist' = h2
           /\ s_call' = [SCallAfter(c0, resp, r) EXCEPT
                           !.saves = IF r.next = "return" /\ r.ok THEN @ + 1 ELSE @]
           /\ IF r.next = "recurse"
                THEN /\ s_depth' = s_depth + 1
                     /\ s_arg' = r.tok
                     /\ UNCHANGED <<s_pc, s_docsLeft>>
                ELSE /\ s_depth' = 0
                     /\ s_arg' = None
                     /\ s_docsLeft' = s_docsLeft - 1
                     /\ s_pc' = IF s_docsLeft > 1 THEN "download" ELSE "done"
  /\ UNCHANGED s_token
  /\ UNCHANGED notSingle

(***************************************************************************)
(* qard_bulk_download.py.  get_json does not catch the exceptions of       *)
(* sess.get: a ConnectionError in a lookup or a listing ends the process   *)
(* with a traceback (exit status 1).                                       *)
(***************************************************************************)
QResponses == {"200", "429", "other", "ConnectionError"}

\* the search keys tried by part B of find_user_by_siren
SearchKeys == <<"siren", "query", "search", "q">>
\* the routes tried by list_files_for_user
FileRoutes == <<"users/{id}/files", "files?user_id", "files?siren">>

NewQHist ==
  [quota |-> FALSE,          \* some call of the batch loop was answered 429
   netAfterQuota |-> FALSE,  \* a request was issued after that
   net |-> FALSE]            \* a request was issued

\* sess.get(...) issued by the batch loop and answered resp
QGet(h, resp) ==
  [h EXCEPT !.netAfterQuota = @ \/ h.quota,
            !.quota = @ \/ (resp = "429"),
            !.net = TRUE]

QardIdle ==
  /\ q_pc = "idle" /\ q_exit = -1 /\ q_key = TRUE /\ q_file = "missing"
  /\ q_sirens = 0 /\ q_idx = 0
  /\ q_sub = 1 /\ q_left = 0 /\ q_hist = NewQHist

QardInit ==
  /\ q_pc = "main"
  /\ q_exit = -1
  /\ q_key \in BOOLEAN
  /\ q_file \in {"missing", "present"}
  /\ q_sirens \in load_sirens(q_file)
  /\ q_idx = 0
  /\ q_sub = 1
  /\ q_left = 0
  /\ q_hist = NewQHist

\* main(): API key and SIREN list are checked before any request
QStart ==
  /\ q_pc = "main"
  /\ IF ~q_key THEN q_pc' = "done" /\ q_exit' = 2
     ELSE IF q_sirens = 0 THEN q_pc' = "done" /\ q_exit' = 1
     ELSE q_pc' = "auth" /\ q_exit' = q_exit
  /\ UNCHANGED <<q_key, q_file, q_sirens, q_idx, q_sub, q_left, q_hist>>
  /\ UNCHANGED notQard

\* if not auth_check(sess): sys.exit(1)
QAuthCheck ==
  /\ q_pc = "auth"
  /\ \E resp \in QResponses :
       IF resp = "200"
         THEN q_pc' = "find_pages" /\ q_idx' = 1 /\ q_exit' = q_exit
         ELSE q_pc' = "done" /\ q_exit' = 1 /\ q_idx' = q_idx
  /\ q_hist' = [q_hist EXCEPT !.net = TRUE]
  /\ UNCHANGED <<q_key, q_file, q_sirens, q_sub, q_left>>
  /\ UNCHANGED notQard

\* the for loop of main() moves to the next SIREN, or prints the summary
\* and main() returns
QNextSiren ==
  IF q_idx < q_sirens
    THEN q_pc' = "find_pages" /\ q_idx' = q_idx + 1 /\ q_exit' = q_exit
    ELSE q_pc' = "done" /\ q_idx' = q_idx /\ q_exit' = 0

\* the process dies on an uncaught exception
QCrash == q_pc' = "done" /\ q_exit' = 1 /\ q_idx' = q_idx

\* find_user_by_siren, part A: one page of iter_pages over /api/v6/users.
\* out: the page holds the user ("match"), is followed by another page
\* ("more") or is the last one ("end").
QFindPage ==
  /\ q_pc = "find_pages"
  /\ \E resp \in QResponses, out \in {"match", "more", "end"} :
       /\ out = "more" => q_sub < MaxPages
       /\ q_hist' = QGet(q_hist, resp)
       /\ IF resp = "ConnectionError" THEN QCrash /\ q_sub' = q_sub
          ELSE IF resp # "200"
            THEN q_pc' = "find_query" /\ q_sub' = 1 /\ UNCHANGED <<q_idx, q_exit>>
          ELSE IF out = "match"
            THEN q_pc' = "list" /\ q_sub' = 1 /\ UNCHANGED <<q_idx, q_exit>>
          ELSE IF out = "more"
            THEN q_sub' = q_sub + 1 /\ UNCHANGED <<q_pc, q_idx, q_exit>>
          ELSE q_pc' = "find_query" /\ q_sub' = 1 /\ UNCHANGED <<q_idx, q_exit>>
  /\ UNCHANGED <<q_key, q_file, q_sirens, q_left>>
  /\ UNCHANGED notQard

\* find_user_by_siren, part B: one query with the search key SearchKeys[q_sub];
\* when no key finds the user, main() records the SIREN as missing
QFindQuery ==
  /\ q_pc = "find_query"
  /\ \E resp \in QResponses, match \in BOOLEAN :
       /\ q_hist' = QGet(q_hist, resp)
       /\ IF resp = "ConnectionError" THEN QCrash /\ q_sub' = q_sub
          ELSE IF resp = "200" /\ match
            THEN q_pc' = "list" /\ q_sub' = 1 /\ UNCHANGED <<q_idx, q_exit>>
          ELSE IF q_sub < Len(SearchKeys)
            THEN q_sub' = q_sub + 1 /\ UNCHANGED <<q_pc, q_idx, q_exit>>
          ELSE QNextSiren /\ q_sub' = 1
  /\ UNCHANGED <<q_key, q_file, q_sirens, q_left>>
  /\ UNCHANGED notQard

\* list_files_for_user: one request on the route FileRoutes[q_sub]; when a
\* route answers a list, pick_files chooses k of its files
QListFiles ==
  /\ q_pc = "list"
  /\ \E resp \in QResponses, hasList \in BOOLEAN, k \in 0..MaxFiles :
       /\ q_hist' = QGet(q_hist, resp)
       /\ IF resp = "ConnectionError" THEN QCrash /\ q_sub' = q_sub /\ q_left' = q_left
          ELSE IF resp = "200" /\ hasList
            THEN IF k > 0
                   THEN /\ q_pc' = "download" /\ q_left' = k /\ q_sub' = 1
                        /\ UNCHANGED <<q_idx, q_exit>>
                   ELSE QNextSiren /\ q_sub' = 1 /\ q_left' = 0
          ELSE IF q_sub < Len(FileRoutes)
            THEN q_sub' = q_sub + 1 /\ UNCHANGED <<q_pc, q_idx, q_exit, q_left>>
          ELSE QNextSiren /\ q_sub' = 1 /\ q_left' = 0
  /\ UNCHANGED <<q_key, q_file, q_sirens>>
  /\ UNCHANGED notQard

\* download_file inside try / except Exception: a status other than 200
\* raises RuntimeError, which main() records in errors before going on
QDownload ==
  /\ q_pc = "download"
  /\ \E resp \in QResponses :
       /\ q_hist' = QGet(q_hist, resp)
       /\ q_left' = q_left - 1
       /\ IF q_left > 1
            THEN UNCHANGED <<q_pc, q_idx, q_exit>>
            ELSE QNextSiren
  /\ UNCHANGED <<q_key, q_file, q_sirens, q_sub>>
  /\ UNCHANGED notQard

(***************************************************************************)
(* qard_download_from_act_id.py.                                           *)
(***************************************************************************)
\* load_filelist_from_csv(csv_path): the lengths the returned list can have
load_filelist_from_csv(file) == IF file = "missing" THEN {0} ELSE 0..MaxRows

ActIdle ==
  /\ a_pc = "idle" /\ a_exit = -1 /\ a_key = TRUE /\ a_csv = "missing"
  /\ a_rows = 0 /\ a_idx = 0 /\ a_net = FALSE

ActInit ==
  /\ a_pc = "main"
  /\ a_exit = -1
  /\ a_key \in BOOLEAN
  /\ a_csv \in {"missing", "present"}
  /\ a_rows \in load_filelist_from_csv(a_csv)
  /\ a_idx = 0
  /\ a_net = FALSE

\* main(): sys.exit(2) when API_KEY is empty
AStart ==
  /\ a_pc = "main"
  /\ IF ~a_key THEN a_pc' = "done" /\ a_exit' = 2
     ELSE a_pc' = "auth" /\ a_exit' = a_exit
  /\ UNCHANGED <<a_key, a_csv, a_rows, a_idx, a_net>>
  /\ UNCHANGED notAct

\* if not auth_check(sess): sys.exit(1); an exception of sess.get is not caught
AAuthCheck ==
  /\ a_pc = "auth"
  /\ \E resp \in QResponses :
       IF resp = "200"
         THEN a_pc' = "load" /\ a_exit' = a_exit
         ELSE a_pc' = "done" /\ a_exit' = 1
  /\ a_net' = TRUE
  /\ UNCHANGED <<a_key, a_csv, a_rows, a_idx>>
  /\ UNCHANGED notAct

\* rows = load_filelist_from_csv(args.csv_file); if not rows: sys.exit(1)
ALoadCsv ==
  /\ a_pc = "load"
  /\ IF a_rows = 0
       THEN a_pc' = "done" /\ a_exit' = 1 /\ a_idx' = a_idx
       ELSE a_pc' = "download" /\ a_exit' = a_exit /\ a_idx' = 1
  /\ UNCHANGED <<a_key, a_csv, a_rows, a_net>>
  /\ UNCHANGED notAct

\* one row of the loop of main(): a row without file_id is skipped, else
\* download_file is called inside try / except Exception; after the last
\* row the summary is printed and main() returns
ADownloadRow ==
  /\ a_pc = "download"
  /\ \E hasId \in BOOLEAN, resp \in QResponses :
       a_net' = (a_net \/ hasId)
  /\ IF a_idx < a_rows
       THEN a_idx' = a_idx + 1 /\ UNCHANGED <<a_pc, a_exit>>
       ELSE a_pc' = "done" /\ a_exit' = 0 /\ a_idx' = a_idx
  /\ UNCHANGED <<a_key, a_csv, a_rows>>
  /\ UNCHANGED notAct

(***************************************************************************)
(* RateLimiter (main_pdf_2.py).  Time is counted in ticks.  time.sleep     *)
(* suspends the caller for at least the requested time, possibly longer,   *)
(* and time passes between the statements of wait().                       *)
(***************************************************************************)
Threads == 1..NThreads

Max(a, b) == IF a > b THEN a ELSE b

\* self.min_interval = 60.0 / float(rpm), in ticks
min_interval(rpm) == (60 * TicksPerSecond) \div rpm

\* the values random.uniform(0.0, 0.08) can take, in ticks
Jitters == 0..((8 * TicksPerSecond) \div 100)

\* next_ok without the min_interval term
next_ok_JitterOnly(last_ts, rpm, jitter) == last_ts + jitter

\* next_ok = self.last_ts + self.min_interval + jitter
next_ok(last_ts, rpm, jitter) == last_ts + min_interval(rpm) + jitter

\* sleep_for = max(0.0, next_ok - now)
sleep_for(now, nxt) == Max(0, nxt - now)

\* time.time() at the first call: any time at which a fresh limiter
\* (last_ts = 0.0) lets the first caller through without sleeping
StartClock(rpm) == min_interval(rpm) + 1 + (8 * TicksPerSecond) \div 100

LimIdle ==
  /\ l_rpm = 0 /\ l_clock = 0 /\ l_last_ts = 0 /\ l_lock = 0
  /\ l_pc = [t \in Threads |-> "idle"]
  /\ l_wake = [t \in Threads |-> 0]
  /\ l_new = [t \in Threads |-> 0]
  /\ l_count = 0 /\ l_lastRet = 0 /\ l_gapRet = -1 /\ l_gapAdm = -1

\* RateLimiter.__init__(rpm), for json_limiter and docs_limiter
LimInit ==
  /\ l_rpm \in {JSON_RPM, DOCS_RPM}
  /\ l_clock = StartClock(l_rpm)
  /\ l_last_ts = 0
  /\ l_lock = 0
  /\ l_pc = [t \in Threads |-> "out"]
  /\ l_wake = [t \in Threads |-> 0]
  /\ l_new = [t \in Threads |-> 0]
  /\ l_count = 0
  /\ l_lastRet = 0
  /\ l_gapRet = -1
  /\ l_gapAdm = -1

\* wait(), first part: the caller takes self.lock, reads the time, draws the
\* jitter, computes next_ok and sleep_for and starts to sleep
LEnter(t) ==
  /\ l_pc[t] = "out"
  /\ l_lock = 0
  /\ l_count < MaxWaits
  /\ \E jitter \in Jitters :
       LET now == l_clock
           nxt == next_ok(l_last_ts, l_rpm, jitter)
       IN  /\ l_wake' = [l_wake EXCEPT ![t] = now + sleep_for(now, nxt)]
           /\ l_new' = [l_new EXCEPT ![t] = Max(now, nxt)]
  /\ l_lock' = t
  /\ l_pc' = [l_pc EXCEPT ![t] = "in"]
  /\ UNCHANGED <<l_rpm, l_clock, l_last_ts, l_count, l_lastRet, l_gapRet, l_gapAdm>>
  /\ UNCHANGED notLim

\* wait(), second part: the sleep is over, self.last_ts is assigned, the lock
\* is released and wait() returns
LExit(t) ==
  /\ l_pc[t] = "in"
  /\ l_clock >= l_wake[t]
  /\ l_last_ts' = l_new[t]
  /\ l_lock' = 0
  /\ l_pc' = [l_pc EXCEPT ![t] = "out"]
  /\ l_count' = l_count + 1
  /\ l_lastRet' = l_clock
  /\ l_gapRet' = IF l_count = 0 THEN -1 ELSE l_clock - l_lastRet
  /\ l_gapAdm' = IF l_count = 0 THEN -1 ELSE l_new[t] - l_last_ts
  /\ UNCHANGED <<l_rpm, l_clock, l_wake, l_new>>
  /\ UNCHANGED notLim

\* time passes; a thread whose sleep is over returns at most MaxLate ticks
\* late, and the next call comes at the latest MaxLate ticks after the time
\* from which wait() no longer sleeps
LTick ==
  /\ l_pc # [t \in Threads |-> "idle"]
  /\ \A t \in Threads : l_pc[t] = "in" => l_clock < l_wake[t] + MaxLate
  /\ (\A t \in Threads : l_pc[t] = "out") =>
        /\ l_count \in 1..(MaxWaits - 1)
        /\ \E jitter \in Jitters :
             l_clock < next_ok(l_last_ts, l_rpm, jitter) + MaxLate
  /\ l_clock' = l_clock + 1
  /\ UNCHANGED <<l_rpm, l_last_ts, l_lock, l_pc, l_wake, l_new, l_count,
                 l_lastRet, l_gapRet, l_gapAdm>>
  /\ UNCHANGED notLim

(***************************************************************************)
(* The token file and the login functions at the level of the text: a      *)
(* token is a sequence of characters.                                      *)
(***************************************************************************)
\* the characters of a token text; " ", tab and newline are whitespace for
\* str.strip
Chars == {"e", "y", " "}
Whitespace == {" ", "\t", "\n"}

RECURSIVE SeqsUpTo(_)
SeqsUpTo(n) ==
  IF n = 0 THEN {<< >>}
  ELSE LET shorter == SeqsUpTo(n - 1)
       IN  shorter \cup {Append(q, c) : q \in {x \in shorter : Len(x) = n - 1}, c \in Chars}

\* the strings a caller can pass to save_token
Texts == SeqsUpTo(MaxTokLen)

RECURSIVE lstrip(_)
lstrip(text) ==
  IF text = << >> THEN text
  ELSE IF Head(text) \in Whitespace THEN lstrip(Tail(text)) ELSE text

RECURSIVE rstrip(_)
rstrip(text) ==
  IF text = << >> THEN text
  ELSE IF text[Len(text)] \in Whitespace THEN rstrip(SubSeq(text, 1, Len(text) - 1))
       ELSE text

\* str.strip() that strips the left side only
strip_LeftOnly(text) == lstrip(text)

\* str.strip()
strip(text) == rstrip(lstrip(text))

\* save_token(token): open(token_file, "w") and write
save_token_text(text) == {text}

\* load_token(): f.read().strip() when the file exists, else None
load_token_text(file) == {strip(content) : content \in file}

\* clear_token() that leaves the file in place
clear_token_text_Keep(file) == file

\* clear_token(): os.remove when the file exists
clear_token_text(file) == {}

\* the answers to the POST of a login function: a transport error, a non-2xx
\* status, a 2xx body that is not JSON, a JSON array, a JSON object without
\* "token", with "token": "" and with a non-empty token
LoginAnswers ==
  {"ConnectionError", "HTTPError", "NotJSON", "Array", "NoToken", "EmptyToken", "Token"}

\* login() of main_pdf_2.py and main_pdf.py: only requests.RequestException is
\* caught.  A JSON array has no .get (AttributeError); a body that is not JSON
\* raises requests' JSONDecodeError (a RequestException) or, with a requests
\* older than 2.27, a ValueError.
login_outcomes(answer) ==
  CASE answer \in {"ConnectionError", "HTTPError"} -> {"None"}
    [] answer = "NotJSON" -> {"None", "raise"}
    [] answer = "Array" -> {"raise"}
    [] answer \in {"NoToken", "EmptyToken"} -> {"None"}
    [] answer = "Token" -> {"token"}

\* collecte_token() of part_000: nothing is caught, a status other than 200
\* raises Exception and a missing "token" key raises KeyError
collecte_token_outcomes(answer) ==
  CASE answer = "ConnectionError" -> {"raise"}
    [] answer = "HTTPError" -> {"raise"}
    [] answer \in {"NotJSON", "Array", "NoToken"} -> {"raise"}
    [] answer = "EmptyToken" -> {"empty"}
    [] answer = "Token" -> {"token"}

NoLogin == [fn |-> "-", answer |-> "-", outcome |-> "-"]

AuthIdle ==
  /\ t_file = {} /\ t_saved = {} /\ t_op = "idle" /\ t_loaded = {}
  /\ t_login = NoLogin

\* no token file yet, nothing called
AuthInit ==
  /\ t_file = {} /\ t_saved = {} /\ t_op = "start" /\ t_loaded = {}
  /\ t_login = NoLogin

TSave ==
  /\ t_op # "idle"
  /\ \E text \in Texts :
       /\ t_file' = save_token_text(text)
       /\ t_saved' = {text}
  /\ t_op' = "save"
  /\ UNCHANGED <<t_loaded, t_login>>
  /\ UNCHANGED notAuth

TLoad ==
  /\ t_op # "idle"
  /\ t_loaded' = load_token_text(t_file)
  /\ t_op' = "load"
  /\ UNCHANGED <<t_file, t_saved, t_login>>
  /\ UNCHANGED notAuth

TClear ==
  /\ t_op # "idle"
  /\ t_file' = clear_token_text(t_file)
  /\ t_saved' = {}
  /\ t_op' = "clear"
  /\ UNCHANGED <<t_loaded, t_login>>
  /\ UNCHANGED notAuth

\* login(): on a non-empty token the token is saved and returned
TLogin ==
  /\ t_op # "idle"
  /\ \E answer \in LoginAnswers :
       \E outcome \in login_outcomes(answer) :
         /\ t_login' = [fn |-> "login", answer |-> answer, outcome |-> outcome]
         /\ IF outcome = "token"
              THEN \E text \in Texts \ {<< >>} :
                     t_file' = save_token_text(text) /\ t_saved' = {text}
              ELSE UNCHANGED <<t_file, t_saved>>
  /\ t_op' = "login"
  /\ UNCHANGED t_loaded
  /\ UNCHANGED notAuth

\* collecte_token(): the token file is not used
TCollecte ==
  /\ t_op # "idle"
  /\ \E answer \in LoginAnswers :
       \E outcome \in collecte_token_outcomes(answer) :
         t_login' = [fn |-> "collecte_token", answer |-> answer, outcome |-> outcome]
  /\ t_op' = "login"
  /\ UNCHANGED <<t_file, t_saved, t_loaded>>
  /\ UNCHANGED notAuth

(***************************************************************************)
(* iter_pages (qard_bulk_download.py) against a listing endpoint.  The     *)
(* items behind the endpoint are 1..total.                                 *)
(***************************************************************************)
ServerModes == {"envelope", "bare", "nofooter", "nokey", "error", "stuck"}

\* number of pages of total items by pages of size items
PageCount(total, size) == Max(1, (total + size - 1) \div size)

\* the items of page n
PageItems(total, size, n) ==
  LET first == (n - 1) * size
      count == Max(0, Min(size, total - first))
  IN  [i \in 1..count |-> first + i]

\* the endpoints: an enveloped endpoint with consistent counters, one that
\* answers a bare list, an envelope without counters, an object without a
\* list, an endpoint that answers an error, and an envelope that serves its
\* first page whatever page is asked for
Servers ==
  {[mode |-> m, total |-> t, size |-> z, last |-> PageCount(t, z)] :
     m \in ServerModes, t \in 0..MaxItems, z \in 1..MaxPageSize}

\* get_json for page n: code, shape of the body, items, current_page, last_page
\* (footer = FALSE when the body has no counters)
Respond(srv, n) ==
  CASE srv.mode = "envelope" ->
         [code |-> "200", shape |-> "object", items |-> PageItems(srv.total, srv.size, n),
          footer |-> TRUE, cur |-> n, last |-> srv.last]
    [] srv.mode = "stuck" ->
         [code |-> "200", shape |-> "object", items |-> PageItems(srv.total, srv.size, 1),
          footer |-> TRUE, cur |-> 1, last |-> srv.last]
    [] srv.mode = "nofooter" ->
         [code |-> "200", shape |-> "object", items |-> PageItems(srv.total, srv.size, n),
          footer |-> FALSE, cur |-> 0, last |-> 0]
    [] srv.mode = "bare" ->
         [code |-> "200", shape |-> "list", items |-> PageItems(srv.total, srv.total, 1),
          footer |-> FALSE, cur |-> 0, last |-> 0]
    [] srv.mode = "nokey" ->
         [code |-> "200", shape |-> "nolist", items |-> << >>,
          footer |-> FALSE, cur |-> 0, last |-> 0]
    [] srv.mode = "error" ->
         [code |-> "other", shape |-> "object", items |-> << >>,
          footer |-> FALSE, cur |-> 0, last |-> 0]

\* the end of the pagination with > in place of >=
PageDone_Strict(cur, last) == cur > last

\* if cur >= last: return
PageDone(cur, last) == cur >= last

\* the counters of the model stop here; the run goes on beyond
PageCap == MaxItems + 2
YieldCap == MaxItems + MaxPageSize

\* seq extended by more, up to YieldCap items
Yielded(seq, more) ==
  LET all == seq \o more
  IN  IF Len(all) <= YieldCap THEN all ELSE SubSeq(all, 1, YieldCap)

\* one turn of while True: the outcome of the answer resp to the request of
\* page page
PageTurn(resp, page) ==
  IF resp.code # "200" THEN [yield |-> <<ErrorBody>>, done |-> TRUE]
  ELSE IF resp.shape = "list" THEN [yield |-> resp.items, done |-> TRUE]
  ELSE IF resp.shape = "nolist" THEN [yield |-> <<WholeObject>>, done |-> TRUE]
  ELSE LET cur == IF resp.footer THEN resp.cur ELSE page
           last == IF resp.footer THEN resp.last ELSE cur
       IN  [yield |-> resp.items, done |-> PageDone(cur, last)]

PageIdle ==
  /\ p_server = [mode |-> "-", total |-> 0, size |-> 0, last |-> 0]
  /\ p_pc = "idle" /\ p_page = 0 /\ p_reqs = 0 /\ p_yield = << >> /\ p_spin = 0

\* iter_pages is called: page = 1
PageInit ==
  /\ p_server \in Servers
  /\ p_pc = "run" /\ p_page = 1 /\ p_reqs = 0 /\ p_yield = << >> /\ p_spin = 0

\* one turn of while True: get_json, the yields, the footer, page += 1
PFetch ==
  /\ p_pc = "run"
  /\ LET turn == PageTurn(Respond(p_server, p_page), p_page)
     IN  /\ p_yield' = Yielded(p_yield, turn.yield)
         /\ p_pc' = IF turn.done THEN "done" ELSE "run"
         /\ p_page' = IF turn.done THEN p_page ELSE Min(p_page + 1, PageCap)
  /\ p_reqs' = Min(p_reqs + 1, PageCap)
  /\ p_spin' = IF p_reqs = PageCap THEN 1 - p_spin ELSE p_spin
  /\ UNCHANGED p_server
  /\ UNCHANGED notPage

(***************************************************************************)
(* filter_actes (main_pdf_2.py, main_pdf.py, main_pdf_json.py).  A text is *)
(* a sequence of characters; a character outside ASCII is written by its   *)
(* name.                                                                   *)
(***************************************************************************)
UpperCase ==
  <<"A", "B", "C", "D", "E", "F", "G", "H", "I", "J", "K", "L", "M", "N",
    "O", "P", "Q", "R", "S", "T", "U", "V", "W", "X", "Y", "Z">>
LowerCase ==
  <<"a", "b", "c", "d", "e", "f", "g", "h", "i", "j", "k", "l", "m", "n",
    "o", "p", "q", "r", "s", "t", "u", "v", "w", "x", "y", "z">>

\* the letters with a diacritic of the labels, and their base letters: NFKD
\* splits each into the base letter and a combining mark
Accented == <<"e-acute", "E-acute", "o-circumflex", "e-grave">>
BaseLetter == <<"e", "E", "o", "e">>

\* characters outside ASCII that NFKD leaves alone
Undecomposable == {"oe-ligature", "OE-ligature", "euro"}

IndexIn(seq, c) == CHOOSE k \in 1..Len(seq) : seq[k] = c

\* str.lower() on one ASCII character
lower_char(c) ==
  IF \E k \in 1..Len(UpperCase) : UpperCase[k] = c
    THEN LowerCase[IndexIn(UpperCase, c)] ELSE c

\* str.lower()
lower(text) == [k \in 1..Len(text) |-> lower_char(text[k])]

\* ascii_char that keeps an accented letter as it is
ascii_char_KeepAccents(c) == <<c>>

\* unicodedata.normalize('NFKD', c).encode('ascii', 'ignore') on one character:
\* the base letter of an accented letter, nothing for another character
\* outside ASCII, the character itself otherwise
ascii_char(c) ==
  IF \E k \in 1..Len(Accented) : Accented[k] = c
    THEN <<BaseLetter[IndexIn(Accented, c)]>>
  ELSE IF c \in Undecomposable THEN << >>
  ELSE <<c>>

RECURSIVE ascii_fold(_)
ascii_fold(text) ==
  IF text = << >> THEN << >> ELSE ascii_char(Head(text)) \o ascii_fold(Tail(text))

\* normalize without .lower()
normalize_NoLower(text) == ascii_fold(text)

\* normalize(text)
normalize(text) == lower(ascii_fold(text))

\* frag in text
Contains(text, frag) ==
  \E k \in 0..(Len(text) - Len(frag)) : SubSeq(text, k + 1, k + Len(frag)) = frag

\* allowed_types
allowed_types == <<
  <<"s", "t", "a", "t", "u", "t", "s", " ", "c", "o", "n", "s", "t", "i",
    "t", "u", "t", "i", "f", "s">>,
  <<"a", "t", "t", "e", "s", "t", "a", "t", "i", "o", "n", " ", "d", "e",
    " ", "d", "e", "p", "o", "t", " ", "d", "e", "s", " ", "f", "o", "n",
    "d", "s">>,
  <<"a", "t", "t", "e", "s", "t", "a", "t", "i", "o", "n", " ", "b", "a",
    "n", "c", "a", "i", "r", "e">> >>

\* labels (typeActe) met in the attachments
LabelAttestationDated ==
  <<"A", "T", "T", "E", "S", "T", "A", "T", "I", "O", "N", " ", "B", "A",
    "N", "C", "A", "I", "R", "E", " ", "D", "U", " ", "0", "1", "/", "0",
    "1", "/", "2", "0", "2", "4">>
LabelStatutsModificatifs ==
  <<"s", "t", "a", "t", "u", "t", "s", " ", "m", "o", "d", "i", "f", "i",
    "c", "a", "t", "i", "f", "s">>
LabelStatutsConstitutifs ==
  <<"S", "t", "a", "t", "u", "t", "s", " ", "c", "o", "n", "s", "t", "i",
    "t", "u", "t", "i", "f", "s">>
LabelDepotAccented ==
  <<"A", "t", "t", "e", "s", "t", "a", "t", "i", "o", "n", " ", "d", "e",
    " ", "d", "e-acute", "p", "o-circumflex", "t", " ", "d", "e", "s", " ",
    "f", "o", "n", "d", "s">>
LabelOeuvre ==
  <<"C", "h", "e", "f", " ", "d", "'", "oe-ligature", "u", "v", "r", "e">>

\* the typeRdd lists of an acte
TypeRddLists ==
  {<< >>, <<LabelAttestationDated>>, <<LabelStatutsModificatifs>>,
   <<LabelDepotAccented>>, <<LabelOeuvre, LabelStatutsConstitutifs>>}

ConfPublic == <<"P", "u", "b", "l", "i", "c">>
ConfRestricted == <<"r", "e", "s", "t", "r", "i", "c", "t", "e", "d">>

\* the values of the key confidentiality: a JSON string, or a JSON value of
\* another form (an object, a list) that carries the text
ConfValues ==
  {[isstr |-> TRUE, text |-> ConfPublic], [isstr |-> TRUE, text |-> ConfRestricted],
   [isstr |-> FALSE, text |-> ConfRestricted]}

\* the actes: deleted, confidentiality ({} when the key is absent) and typeRdd.
\* No variant reads the confidentiality of an acte flagged deleted, so these
\* come without the key.
Actes ==
  [deleted : {FALSE}, confidentiality : {{}} \cup {{v} : v \in ConfValues},
   typeRdd : TypeRddLists]
  \cup [deleted : {TRUE}, confidentiality : {{}}, typeRdd : TypeRddLists]

RECURSIVE ListsUpTo(_, _)
ListsUpTo(S, n) ==
  IF n = 0 THEN {<< >>}
  ELSE LET shorter == ListsUpTo(S, n - 1)
       IN  shorter \cup {Append(q, x) : q \in {y \in shorter : Len(y) = n - 1}, x \in S}

\* any(any(allowed in acte_type ...) ...) over the normalized labels
type_match(acte) ==
  \E k \in 1..Len(acte.typeRdd), a \in 1..Len(allowed_types) :
     Contains(normalize(acte.typeRdd[k]), allowed_types[a])

\* isinstance(conf, str) and conf.lower() != "public"
conf_excluded(conf) == conf.isstr /\ lower(conf.text) # lower(ConfPublic)

\* the body of the for loop of filter_actes of main_pdf_2.py: is acte appended
keep_acte_2(acte) ==
  IF acte.deleted = TRUE THEN FALSE
  ELSE IF \E conf \in acte.confidentiality : conf_excluded(conf) THEN FALSE
  ELSE type_match(acte)

\* the body of the for loop of filter_actes of main_pdf.py and main_pdf_json.py
keep_acte_1(acte) == type_match(acte)

Variants == {"main_pdf_2", "main_pdf", "main_pdf_json"}

keep_acte(variant, acte) ==
  IF variant = "main_pdf_2" THEN keep_acte_2(acte) ELSE keep_acte_1(acte)

FilterIdle ==
  /\ f_variant = "-" /\ f_actes = << >> /\ f_i = 0
  /\ f_filtered = << >> /\ f_downloaded = << >>

\* filter_actes is called on the attachments of one SIREN
FilterInit ==
  /\ f_variant \in Variants
  /\ f_actes \in ListsUpTo(Actes, MaxActes)
  /\ f_i = 0
  /\ f_filtered = << >>
  /\ f_downloaded = << >>

\* one turn of the for loop of filter_actes
FilterStep ==
  /\ f_variant \in Variants
  /\ f_i < Len(f_actes)
  /\ f_i' = f_i + 1
  /\ f_filtered' = IF keep_acte(f_variant, f_actes[f_i + 1])
                     THEN Append(f_filtered, f_i + 1) ELSE f_filtered
  /\ UNCHANGED <<f_variant, f_actes, f_downloaded>>
  /\ UNCHANGED notFilter

\* main: for acte in filtered, the download of the next acte
FilterDownload ==
  /\ f_variant \in Variants
  /\ f_i = Len(f_actes)
  /\ Len(f_downloaded) < Len(f_filtered)
  /\ f_downloaded' = Append(f_downloaded, f_filtered[Len(f_downloaded) + 1])
  /\ UNCHANGED <<f_variant, f_actes, f_i, f_filtered>>
  /\ UNCHANGED notFilter

(***************************************************************************)
(* norm (pre-ocr_filter.py), and normalize and norm applied to texts.      *)
(***************************************************************************)
\* the characters matched by \s
SpaceChars == {" ", "\t"}

\* NFKD, then the characters that are not combining marks, on one character
strip_marks_char(c) ==
  IF \E k \in 1..Len(Accented) : Accented[k] = c
    THEN BaseLetter[IndexIn(Accented, c)] ELSE c

strip_marks(text) == [k \in 1..Len(text) |-> strip_marks_char(text[k])]

\* str.lower() on a text that may hold letters outside ASCII
lower_unicode(text) ==
  [k \in 1..Len(text) |->
     IF text[k] = "OE-ligature" THEN "oe-ligature" ELSE lower_char(text[k])]

RECURSIVE skip_spaces(_)
skip_spaces(text) ==
  IF text = << >> THEN text
  ELSE IF Head(text) \in SpaceChars THEN skip_spaces(Tail(text)) ELSE text

\* re.sub(r"\s+", " ", t)
RECURSIVE collapse_spaces(_)
collapse_spaces(text) ==
  IF text = << >> THEN << >>
  ELSE IF Head(text) \in SpaceChars
         THEN <<" ">> \o collapse_spaces(skip_spaces(Tail(text)))
         ELSE <<Head(text)>> \o collapse_spaces(Tail(text))

\* norm(text)
norm(text) ==
  IF text = << >> THEN << >>
  ELSE strip(collapse_spaces(lower_unicode(strip_marks(text))))

\* the characters of the texts
TextChars == {"a", "e", "E-acute", "OE-ligature", "oe-ligature", " ", "\t"}

RECURSIVE TextsUpTo(_)
TextsUpTo(n) ==
  IF n = 0 THEN {<< >>}
  ELSE LET shorter == TextsUpTo(n - 1)
       IN  shorter \cup {Append(q, c) : q \in {x \in shorter : Len(x) = n - 1},
                                        c \in TextChars}

NoOut == [f |-> "-", x |-> << >>, xx |-> << >>, y |-> << >>]

NormIdle == n_x = << >> /\ n_y = << >> /\ n_pc = "idle" /\ n_out = NoOut

\* two texts
NormInit ==
  /\ n_x \in TextsUpTo(MaxTextLen)
  /\ n_y \in TextsUpTo(MaxTextLen)
  /\ n_pc = "start"
  /\ n_out = NoOut

\* normalize is applied
NNormalize ==
  /\ n_pc = "start"
  /\ n_out' = [f |-> "normalize", x |-> normalize(n_x),
               xx |-> normalize(normalize(n_x)), y |-> normalize(n_y)]
  /\ n_pc' = "done"
  /\ UNCHANGED <<n_x, n_y>>
  /\ UNCHANGED notNorm

\* norm is applied
NNorm ==
  /\ n_pc = "start"
  /\ n_out' = [f |-> "norm", x |-> norm(n_x), xx |-> norm(norm(n_x)), y |-> norm(n_y)]
  /\ n_pc' = "done"
  /\ UNCHANGED <<n_x, n_y>>
  /\ UNCHANGED notNorm

(***************************************************************************)
(* The identifier loaders: load_sirens of main_pdf_2.py and of             *)
(* qard_bulk_download.py, and the loader of qard_setup_and_list_acts.py.   *)
(***************************************************************************)
Digits == {"0", "1", "2", "3", "4", "5", "6", "7", "8", "9"}

\* the lines a SIREN file can hold, with their end of line
LineNine == <<"1", "2", "3", "4", "5", "6", "7", "8", "9", "\n">>
LineSpaced == <<" ", "9", "8", "7", " ", "6", "5", "4", " ", "3", "2", "1", "\n">>
LineEight == <<"1", "2", "3", "4", "5", "6", "7", "8", "\n">>
LineLetter == <<"1", "2", "3", "4", "5", "6", "7", "8", "A", "\n">>
LineTen == <<"1", "2", "3", "4", "5", "6", "7", "8", "9", "0">>
LineBlank == <<" ", "\n">>

Lines == {LineNine, LineSpaced, LineEight, LineLetter, LineTen, LineBlank}

\* str.replace(" ", "")
RECURSIVE remove_blanks(_)
remove_blanks(text) ==
  IF text = << >> THEN << >>
  ELSE IF Head(text) = " " THEN remove_blanks(Tail(text))
  ELSE <<Head(text)>> \o remove_blanks(Tail(text))

\* str.isdigit()
isdigit(text) == text # << >> /\ \A k \in 1..Len(text) : text[k] \in Digits

\* len(s) == 9 and s.isdigit()
siren_ok(text) == Len(text) = 9 /\ isdigit(text)

\* load_sirens of main_pdf_2.py and of qard_bulk_download.py on one line: the
\* identifiers it appends
load_sirens_line(line) ==
  LET text == remove_blanks(strip(line))
  IN  IF siren_ok(text) THEN <<text>> ELSE << >>

\* the loader of qard_setup_and_list_acts.py on one line:
\* [line.strip() for line in f if line.strip()]
inline_loader_line(line) ==
  IF strip(line) # << >> THEN <<strip(line)>> ELSE << >>

LoaderScripts == {"main_pdf_2", "qard_bulk_download", "qard_setup_and_list_acts"}

LoadIdle ==
  /\ r_script = "-" /\ r_lines = << >> /\ r_i = 0
  /\ r_sirens = << >> /\ r_requested = << >>

\* a script starts on a SIREN file
LoadInit ==
  /\ r_script \in LoaderScripts
  /\ r_lines \in ListsUpTo(Lines, MaxLines)
  /\ r_i = 0
  /\ r_sirens = << >>
  /\ r_requested = << >>

\* the loader reads one line
LoadLine ==
  /\ r_script \in LoaderScripts
  /\ r_i < Len(r_lines)
  /\ r_i' = r_i + 1
  /\ r_sirens' = r_sirens \o
       (IF r_script = "qard_setup_and_list_acts"
          THEN inline_loader_line(r_lines[r_i + 1])
          ELSE load_sirens_line(r_lines[r_i + 1]))
  /\ UNCHANGED <<r_script, r_lines, r_requested>>
  /\ UNCHANGED notLoad

\* the main loop issues the first request of the next identifier
LoadRequest ==
  /\ r_script \in LoaderScripts
  /\ r_i = Len(r_lines)
  /\ Len(r_requested) < Len(r_sirens)
  /\ r_requested' = Append(r_requested, r_sirens[Len(r_requested) + 1])
  /\ UNCHANGED <<r_script, r_lines, r_i, r_sirens>>
  /\ UNCHANGED notLoad

(***************************************************************************)
(* main of main_pdf_json.py: the loop over the filtered actes and the      *)
(* JSON file.                                                              *)
(***************************************************************************)
LabelInconnu == <<"i", "n", "c", "o", "n", "n", "u">>

\* the typeRdd of a document filter_actes kept
KeptTypeRddLists == {t \in TypeRddLists : type_match([typeRdd |-> t])}

\* choose_acte_label: the first label that matches an allowed type, else the
\* first label, else "inconnu"
choose_acte_label(typeRdd) ==
  LET matching == {k \in 1..Len(typeRdd) :
                     \E a \in 1..Len(allowed_types) :
                        Contains(normalize(typeRdd[k]), allowed_types[a])}
  IN  IF matching # {} THEN typeRdd[CHOOSE k \in matching : \A m \in matching : k <= m]
      ELSE IF typeRdd # << >> THEN typeRdd[1]
      ELSE LabelInconnu

\* what download_acte_base64 returns: None on a failure, the base64 text of
\* the body otherwise, which is "" for an empty body
DownloadResults == {"None", "", "JVBERi0x"}

\* the entry main appends for the acte at position k
output_entry(typeRdd, k) ==
  [siren |-> "834816985", typeActe |-> choose_acte_label(typeRdd), id |-> k,
   mime |-> "application/pdf"]

JsonIdle ==
  /\ j_pc = "idle" /\ j_actes = << >> /\ j_results = << >> /\ j_output = << >>
  /\ j_file = {}

\* after actes = filter_actes(attachments)
JsonInit ==
  /\ j_pc = "loop"
  /\ j_actes \in ListsUpTo(KeptTypeRddLists, MaxActes)
  /\ j_results = << >>
  /\ j_output = << >>
  /\ j_file = {}

\* one turn of for acte in actes
JDownload ==
  /\ j_pc = "loop"
  /\ Len(j_results) < Len(j_actes)
  /\ \E b64 \in DownloadResults :
       /\ j_results' = Append(j_results, b64)
       /\ j_output' =
            IF b64 \in {"None", ""} THEN j_output
            ELSE Append(j_output,
                        output_entry(j_actes[Len(j_results) + 1], Len(j_results) + 1))
  /\ UNCHANGED <<j_pc, j_actes, j_file>>
  /\ UNCHANGED notJson

\* json.dump(output, f)
JWrite ==
  /\ j_pc = "loop"
  /\ Len(j_results) = Len(j_actes)
  /\ j_file' = {j_output}
  /\ j_pc' = "written"
  /\ UNCHANGED <<j_actes, j_results, j_output>>
  /\ UNCHANGED notJson

(***************************************************************************)
(* siren_sampling.py: the Luhn check digit and the sampling loop.          *)
(***************************************************************************)
\* the digit of n at position i, counted from the right and from 0
DigitAt(n, i) == (n \div (10 ^ i)) % 10

\* d *= 2; if d > 9: d -= 9
doubled(d) == IF 2 * d > 9 THEN 2 * d - 9 ELSE 2 * d

\* the sum of siren_check_digit over the i rightmost digits of prefix8; alt
\* is True on the rightmost digit and alternates
RECURSIVE luhn_total(_, _)
luhn_total(prefix8, i) ==
  IF i = 0 THEN 0
  ELSE luhn_total(prefix8, i - 1)
       + (IF (i - 1) % 2 = 0 THEN doubled(DigitAt(prefix8, i - 1))
          ELSE DigitAt(prefix8, i - 1))

\* siren_check_digit that returns total % 10
siren_check_digit_NoComplement(prefix8) == luhn_total(prefix8, 8) % 10

\* siren_check_digit(prefix8), prefix8 written with 8 digits
siren_check_digit(prefix8) == (10 - (luhn_total(prefix8, 8) % 10)) % 10

\* make_siren_from_prefix8(prefix8)
make_siren_from_prefix8(prefix8) == prefix8 * 10 + siren_check_digit(prefix8)

\* len(str(start9)) != 9 or len(str(end9)) != 9 or start9 > end9
bad_range(start9, end9) ==
  \/ start9 < 10 ^ 8 \/ start9 >= 10 ^ 9
  \/ end9 < 10 ^ 8 \/ end9 >= 10 ^ 9
  \/ start9 > end9

\* the values of start9 followed
Starts == {10 ^ 8, RANGE_START, RANGE_START + 5, 999999970}

SampleIdle ==
  /\ g_pc = "idle" /\ g_start = 0 /\ g_end = 0 /\ g_k = 0
  /\ g_out = << >> /\ g_seen = {}

\* sample_valid_sirens_in_range(start9, end9, k) is called
SampleInit ==
  /\ g_start \in Starts
  /\ g_end \in {g_start + b : b \in -1..(10 * MaxSpan + 9)}
  /\ g_k \in 0..MaxK
  /\ g_pc = "loop"
  /\ g_out = << >>
  /\ g_seen = {}

\* the check of the arguments fails: ValueError
GRaise ==
  /\ g_pc = "loop"
  /\ bad_range(g_start, g_end)
  /\ g_pc' = "raised"
  /\ UNCHANGED <<g_start, g_end, g_k, g_out, g_seen>>
  /\ UNCHANGED notSample

\* one turn of while len(out) < k
GDraw ==
  /\ g_pc = "loop"
  /\ ~bad_range(g_start, g_end)
  /\ Len(g_out) < g_k
  /\ \E prefix \in (g_start \div 10)..(g_end \div 10) :
       LET sir == make_siren_from_prefix8(prefix)
       IN  IF g_start <= sir /\ sir <= g_end /\ sir \notin g_seen
             THEN g_seen' = g_seen \cup {sir} /\ g_out' = Append(g_out, sir)
             ELSE UNCHANGED <<g_seen, g_out>>
  /\ UNCHANGED <<g_pc, g_start, g_end, g_k>>
  /\ UNCHANGED notSample

\* the loop ends: return out
GReturn ==
  /\ g_pc = "loop"
  /\ ~bad_range(g_start, g_end)
  /\ ~(Len(g_out) < g_k)
  /\ g_pc' = "returned"
  /\ UNCHANGED <<g_start, g_end, g_k, g_out, g_seen>>
  /\ UNCHANGED notSample

(***************************************************************************)
(* pick_files (qard_bulk_download.py) and the downloads of main.           *)
(***************************************************************************)
\* str.upper() on one ASCII character
upper_char(c) ==
  IF \E k \in 1..Len(LowerCase) : LowerCase[k] = c
    THEN UpperCase[IndexIn(LowerCase, c)] ELSE c

\* str.upper()
upper(text) == [k \in 1..Len(text) |-> upper_char(text[k])]

TypeAct == <<"A", "C", "T">>
TypeArticles == <<"A", "R", "T", "I", "C", "L", "E", "S", "_", "O", "F", "_", "A", "S", "S", "O", "C", "I", "A", "T", "I", "O", "N">>
TypeLegalNotice == <<"L", "E", "G", "A", "L", "_", "N", "O", "T", "I", "C", "E">>
TypeAvisSiren == <<"A", "V", "I", "S", "_", "S", "I", "R", "E", "N">>
TypeUnknown == <<"U", "N", "K", "N", "O", "W", "N">>

ALLOWED_DATATYPES == {TypeAct, TypeArticles, TypeLegalNotice, TypeAvisSiren}

\* the datatype of a file descriptor: "" when the field is missing or empty
FileTypes == {<< >>, TypeAct, <<"a", "c", "t">>, TypeLegalNotice, <<"I", "N", "V", "O", "I", "C", "E">>}

\* the file descriptors: datatype, and whether an id is present
Files == [datatype : FileTypes, hasid : BOOLEAN]

\* the body of the for loop of pick_files on the file at position k: the
\* pairs appended to chosen
pick_file(file, k) ==
  LET dtype == upper(file.datatype)
  IN  IF ALLOWED_DATATYPES # {} /\ dtype # << >> /\ dtype \notin ALLOWED_DATATYPES
        THEN << >>
      ELSE IF ~file.hasid THEN << >>
      ELSE <<[fid |-> k, dtype |-> IF dtype # << >> THEN dtype ELSE TypeUnknown]>>

\* the for loop of pick_files breaks after the turn that left chosen
pick_break(chosen, appended, download_all, max_files_per_user) ==
  /\ appended
  /\ \/ ~download_all /\ chosen # << >>
     \/ download_all /\ Len(chosen) >= max_files_per_user

PickIdle ==
  /\ k_pc = "idle" /\ k_files = << >> /\ k_all = FALSE /\ k_max = 0 /\ k_i = 0
  /\ k_chosen = << >> /\ k_downloaded = << >>

\* pick_files(files, args.all_files, args.max_files_per_user) is called
PickInit ==
  /\ k_pc = "pick"
  /\ k_files \in ListsUpTo(Files, MaxFiles)
  /\ k_all \in BOOLEAN
  /\ k_max \in 1..MaxFiles
  /\ k_i = 0
  /\ k_chosen = << >>
  /\ k_downloaded = << >>

\* one turn of for f in files, or the return of pick_files
PickStep ==
  /\ k_pc = "pick"
  /\ IF k_i < Len(k_files)
       THEN LET more == pick_file(k_files[k_i + 1], k_i + 1)
                chosen == k_chosen \o more
            IN  /\ k_chosen' = chosen
                /\ k_i' = k_i + 1
                /\ k_pc' = IF pick_break(chosen, more # << >>, k_all, k_max)
                             THEN "download" ELSE "pick"
       ELSE /\ k_pc' = "download"
            /\ UNCHANGED <<k_i, k_chosen>>
  /\ UNCHANGED <<k_files, k_all, k_max, k_downloaded>>
  /\ UNCHANGED notPick

\* main: download_file for the next pair of chosen, or the end of the loop
PickDownload ==
  /\ k_pc = "download"
  /\ IF Len(k_downloaded) < Len(k_chosen)
       THEN /\ k_downloaded' = Append(k_downloaded, k_chosen[Len(k_downloaded) + 1])
            /\ k_pc' = k_pc
       ELSE /\ k_pc' = "done"
            /\ UNCHANGED k_downloaded
  /\ UNCHANGED <<k_files, k_all, k_max, k_i, k_chosen>>
  /\ UNCHANGED notPick

(***************************************************************************)
(* The totals of main() in main_pdf_2.py: total_found and                  *)
(* total_downloaded over the SIRENs of the run.                            *)
(***************************************************************************)
\* the files a previous run may have left in the working directory
MaxLeftover == 1

\* the ids of the actes of a listing
ActeIds == 1..MaxActes

\* filter_actes(attachments): actes with distinct ids
Listings == {l \in ListsUpTo(ActeIds, MaxActes) :
               \A a, b \in 1..Len(l) : a # b => l[a] # l[b]}

\* how download_acte ends: the file is written and the token returned, the
\* token is returned with no file written (403, 5xx or a network error on
\* the last attempt, failed re-login), or SystemExit(2) on 429
DownloadEnds == {"saved", "failed", "stop"}

\* the working directory when main() starts
Disks == {d \in SUBSET ((1..MaxSirens) \X ActeIds) : Cardinality(d) <= MaxLeftover}

CountIdle ==
  /\ c_pc = "idle" /\ c_idx = 0 /\ c_actes = << >> /\ c_i = 0 /\ c_disk = {}
  /\ total_found = 0 /\ total_downloaded = 0 /\ c_saved = 0

\* main() reaches its for loop with both totals at 0
CountInit ==
  /\ c_pc = "list"
  /\ c_idx = 1
  /\ c_actes = << >>
  /\ c_i = 0
  /\ c_disk \in Disks
  /\ total_found = 0
  /\ total_downloaded = 0
  /\ c_saved = 0

\* one turn of for idx, s in enumerate(sirens, 1) up to the inner loop, or
\* the summary after the last SIREN
CountList ==
  /\ c_pc = "list"
  /\ IF c_idx <= MaxSirens
       THEN \/ \* no attachments JSON: skip
               /\ c_idx' = c_idx + 1
               /\ UNCHANGED <<c_pc, c_actes, c_i, total_found>>
            \/ \E actes_filtered \in Listings :
                 /\ total_found' = total_found + Len(actes_filtered)
                 /\ c_actes' = actes_filtered
                 /\ c_i' = 0
                 /\ IF actes_filtered = << >>
                      THEN c_pc' = c_pc /\ c_idx' = c_idx + 1
                      ELSE c_pc' = "download" /\ c_idx' = c_idx
       ELSE /\ c_pc' = "done"
            /\ UNCHANGED <<c_idx, c_actes, c_i, total_found>>
  /\ UNCHANGED <<c_disk, total_downloaded, c_saved>>
  /\ UNCHANGED notCount

\* one turn of for acte in actes_filtered: download_acte, then the test
\* os.path.exists(expected_filename)
CountDownload ==
  /\ c_pc = "download"
  /\ \E end \in DownloadEnds :
       LET acte_id == c_actes[c_i + 1]
           expected_filename == <<c_idx, acte_id>>
           disk == IF end = "saved" THEN c_disk \cup {expected_filename} ELSE c_disk
       IN  /\ c_disk' = disk
           /\ c_saved' = IF end = "saved" THEN c_saved + 1 ELSE c_saved
           /\ IF end = "stop"
                THEN /\ c_pc' = "stopped"
                     /\ UNCHANGED <<c_idx, c_i, total_downloaded>>
                ELSE /\ total_downloaded' = IF expected_filename \in disk
                                              THEN total_downloaded + 1
                                              ELSE total_downloaded
                     /\ c_i' = c_i + 1
                     /\ IF c_i + 1 < Len(c_actes)
                          THEN c_pc' = c_pc /\ c_idx' = c_idx
                          ELSE c_pc' = "list" /\ c_idx' = c_idx + 1
  /\ UNCHANGED <<c_actes, total_found>>
  /\ UNCHANGED notCount

(***************************************************************************)
(* The token file and the token in use in main_pdf_2.py, tokens being      *)
(* texts: get_token, validate_or_refresh_token, fetch_attachments and      *)
(* download_acte as main() calls them.                                     *)
(***************************************************************************)
\* the tokens the login endpoint hands out
ServerTokens == {<<"e">>, <<"y">>, <<"e", " ">>}

\* what resp.json().get("token") is after a POST of login(): {} when the
\* POST failed or the body has no token, and no token once MaxTok were issued
LoginReturns(n) == IF n < MaxTok THEN {{}} \cup {{t} : t \in ServerTokens} ELSE {{}}

\* login() with the token file `file`: the token is saved and returned, or
\* None is returned and the file is left as it is
login_text(tok, file) ==
  IF tok = {} \/ tok = {<< >>}
    THEN [ret |-> {}, file |-> file]
    ELSE [ret |-> tok, file |-> UNION {save_token_text(t) : t \in tok}]

\* Python's truth value of a token: None and "" are false
truthy(tok) == tok # {} /\ tok # {<< >>}

\* get_token(): the saved token when load_token() returns a non-empty one,
\* else login()
get_token_text(tok, file) ==
  IF truthy(load_token_text(file))
    THEN [ret |-> load_token_text(file), file |-> file, posted |-> FALSE]
    ELSE [ret |-> login_text(tok, file).ret, file |-> login_text(tok, file).file,
          posted |-> TRUE]

NoReq == [sent |-> FALSE, tok |-> {}, file |-> {}]

\* requests.get(url, headers={"Authorization": f"Bearer {token}"}) while the
\* token file is `file`
SendGet(tok, file) == [sent |-> TRUE, tok |-> tok, file |-> file]

StoreIdle ==
  /\ u_pc = "idle" /\ u_file = {} /\ u_token = {} /\ u_local = {} /\ u_attempt = 0
  /\ u_idx = 0 /\ u_docs = 0 /\ u_logins = 0 /\ u_req = NoReq

\* main() starts; the token file is absent or holds any text
StoreInit ==
  /\ u_pc = "main"
  /\ u_file \in {{}} \cup {{text} : text \in Texts}
  /\ u_token = {}
  /\ u_local = {}
  /\ u_attempt = 1
  /\ u_idx = 0
  /\ u_docs = 0
  /\ u_logins = 0
  /\ u_req = NoReq

\* token = get_token(); main() returns without a token
UGetToken ==
  /\ u_pc = "main"
  /\ \E tok \in LoginReturns(u_logins) :
       LET g == get_token_text(tok, u_file)
       IN  /\ u_token' = g.ret
           /\ u_file' = g.file
           /\ u_logins' = IF g.posted /\ g.ret # {} THEN u_logins + 1 ELSE u_logins
           /\ u_pc' = IF g.ret = {} THEN "done" ELSE "probe"
  /\ UNCHANGED <<u_local, u_attempt, u_idx, u_docs, u_req>>
  /\ UNCHANGED notStore

\* the for loop of main() goes to the next SIREN or ends
UNextSiren ==
  IF u_idx < MaxSirens
    THEN u_pc' = "fetch" /\ u_idx' = u_idx + 1
    ELSE u_pc' = "done" /\ u_idx' = u_idx

\* token = validate_or_refresh_token(token, sirens[0])
UProbe ==
  /\ u_pc = "probe"
  /\ \E resp \in Responses, tok \in LoginReturns(u_logins) :
       LET d  == ProbeDecision(resp)
           lg == login_text(tok, clear_token_text(u_file))
       IN  /\ u_req' = SendGet(u_token, u_file)
           /\ CASE d = "ok" ->
                   /\ u_pc' = "fetch" /\ u_idx' = 1
                   /\ UNCHANGED <<u_token, u_file, u_logins>>
                [] d = "stop" ->
                   /\ u_pc' = "done"
                   /\ UNCHANGED <<u_idx, u_token, u_file, u_logins>>
                [] d = "relogin" ->
                   /\ u_token' = lg.ret
                   /\ u_file' = lg.file
                   /\ u_logins' = IF lg.ret # {} THEN u_logins + 1 ELSE u_logins
                   /\ IF lg.ret = {}
                        THEN u_pc' = "done" /\ u_idx' = u_idx
                        ELSE u_pc' = "fetch" /\ u_idx' = 1
  /\ u_attempt' = 1
  /\ UNCHANGED <<u_local, u_docs>>
  /\ UNCHANGED notStore

\* attachments, token = fetch_attachments(token, s): one iteration of its loop
UFetch ==
  /\ u_pc = "fetch"
  /\ \E resp \in Responses, tok \in LoginReturns(u_logins), n \in 0..MaxDocs :
       LET t  == IF u_attempt = 1 THEN u_token ELSE u_local
           d  == FetchDecision(resp, u_attempt)
           lg == login_text(tok, clear_token_text(u_file))
           \* the token the call holds after the iteration
           after == IF d = "relogin" THEN lg.ret ELSE t
           continue == d = "backoff" \/ (d = "relogin" /\ lg.ret # {})
           ended == ~continue \/ u_attempt = max_attempts
       IN  /\ u_req' = SendGet(t, u_file)
           /\ u_file' = IF d = "relogin" THEN lg.file ELSE u_file
           /\ u_logins' = IF d = "relogin" /\ lg.ret # {} THEN u_logins + 1 ELSE u_logins
           /\ u_local' = after
           /\ IF d = "stop"
                THEN /\ u_pc' = "done"
                     /\ UNCHANGED <<u_token, u_attempt, u_idx, u_docs>>
              ELSE IF ~ended
                THEN /\ u_attempt' = u_attempt + 1
                     /\ UNCHANGED <<u_pc, u_token, u_idx, u_docs>>
              ELSE /\ u_token' = after
                   /\ u_attempt' = 1
                   /\ IF d = "success" /\ n > 0
                        THEN u_pc' = "download" /\ u_docs' = n /\ u_idx' = u_idx
                        ELSE UNextSiren /\ u_docs' = 0
  /\ UNCHANGED notStore

\* token = download_acte(token, s, acte) or prev_token: one iteration of the
\* loop of download_acte
UDownload ==
  /\ u_pc = "download"
  /\ \E resp \in Responses, tok \in LoginReturns(u_logins) :
       LET t  == IF u_attempt = 1 THEN u_token ELSE u_local
           d  == DownloadDecision(resp, u_attempt)
           lg == login_text(tok, clear_token_text(u_file))
           after == IF d = "relogin" /\ lg.ret # {} THEN lg.ret ELSE t
           continue == d = "backoff" \/ (d = "relogin" /\ lg.ret # {})
           ended == ~continue \/ u_attempt = max_attempts
       IN  /\ u_req' = SendGet(t, u_file)
           /\ u_file' = IF d = "relogin" THEN lg.file ELSE u_file
           /\ u_logins' = IF d = "relogin" /\ lg.ret # {} THEN u_logins + 1 ELSE u_logins
           /\ u_local' = after
           /\ IF d = "stop"
                THEN /\ u_pc' = "done"
                     /\ UNCHANGED <<u_token, u_attempt, u_idx, u_docs>>
              ELSE IF ~ended
                THEN /\ u_attempt' = u_attempt + 1
                     /\ UNCHANGED <<u_pc, u_token, u_idx, u_docs>>
              ELSE /\ u_token' = IF truthy(after) THEN after ELSE u_token
                   /\ u_attempt' = 1
                   /\ u_docs' = u_docs - 1
                   /\ IF u_docs > 1
                        THEN UNCHANGED <<u_pc, u_idx>>
                        ELSE UNextSiren
  /\ UNCHANGED notStore

(***************************************************************************)
(* Specifications: one per program; the state of the other programs stays  *)
(* idle.  SpecScripts runs any one of the three batch scripts.             *)
(***************************************************************************)
BInit == Init /\ SingleIdle /\ QardIdle /\ ActIdle /\ LimIdle /\ AuthIdle /\ PageIdle /\ FilterIdle
  /\ NormIdle
  /\ LoadIdle
  /\ JsonIdle
  /\ SampleIdle
  /\ PickIdle
  /\ CountIdle
  /\ StoreIdle
Next == MainStart \/ Probe \/ FetchAttempt \/ DownloadAttempt
Spec == BInit /\ [][Next]_vars

SInit == SingleInit /\ BatchIdle /\ QardIdle /\ ActIdle /\ LimIdle /\ AuthIdle /\ PageIdle /\ FilterIdle
  /\ NormIdle
  /\ LoadIdle
  /\ JsonIdle
  /\ SampleIdle
  /\ PickIdle
  /\ CountIdle
  /\ StoreIdle
SNext == SMainStart \/ SFetchFrame \/ SDownloadFrame
SpecPdf == SInit /\ [][SNext]_vars

QInit == QardInit /\ BatchIdle /\ SingleIdle /\ ActIdle /\ LimIdle /\ AuthIdle /\ PageIdle /\ FilterIdle
  /\ NormIdle
  /\ LoadIdle
  /\ JsonIdle
  /\ SampleIdle
  /\ PickIdle
  /\ CountIdle
  /\ StoreIdle
QNext == QStart \/ QAuthCheck \/ QFindPage \/ QFindQuery \/ QListFiles \/ QDownload
SpecQard == QInit /\ [][QNext]_vars

AInit == ActInit /\ BatchIdle /\ SingleIdle /\ QardIdle /\ LimIdle /\ AuthIdle /\ PageIdle /\ FilterIdle
  /\ NormIdle
  /\ LoadIdle
  /\ JsonIdle
  /\ SampleIdle
  /\ PickIdle
  /\ CountIdle
  /\ StoreIdle
ANext == AStart \/ AAuthCheck \/ ALoadCsv \/ ADownloadRow
ScriptsInit == BInit \/ QInit \/ AInit
ScriptsNext == Next \/ QNext \/ ANext
SpecScripts == ScriptsInit /\ [][ScriptsNext]_vars

LInit == LimInit /\ BatchIdle /\ SingleIdle /\ QardIdle /\ ActIdle /\ AuthIdle /\ PageIdle /\ FilterIdle
  /\ NormIdle
  /\ LoadIdle
  /\ JsonIdle
  /\ SampleIdle
  /\ PickIdle
  /\ CountIdle
  /\ StoreIdle
LNext == (\E t \in Threads : LEnter(t)) \/ (\E t \in Threads : LExit(t)) \/ LTick
SpecLimiter == LInit /\ [][LNext]_vars

TInit == AuthInit /\ BatchIdle /\ SingleIdle /\ QardIdle /\ ActIdle /\ LimIdle /\ PageIdle /\ FilterIdle
  /\ NormIdle
  /\ LoadIdle
  /\ JsonIdle
  /\ SampleIdle
  /\ PickIdle
  /\ CountIdle
  /\ StoreIdle
TNext == TSave \/ TLoad \/ TClear \/ TLogin \/ TCollecte
SpecAuth == TInit /\ [][TNext]_vars

PInit == PageInit /\ BatchIdle /\ SingleIdle /\ QardIdle /\ ActIdle /\ LimIdle /\ AuthIdle /\ FilterIdle
  /\ NormIdle
  /\ LoadIdle
  /\ JsonIdle
  /\ SampleIdle
  /\ PickIdle
  /\ CountIdle
  /\ StoreIdle
PNext == PFetch
SpecPages == PInit /\ [][PNext]_vars
\* the generator is drained: a turn that can be taken is taken
SpecPagesFair == SpecPages /\ WF_vars(PFetch)

FInit ==
  /\ FilterInit /\ BatchIdle /\ SingleIdle /\ QardIdle /\ ActIdle /\ LimIdle
  /\ AuthIdle /\ PageIdle
  /\ NormIdle
  /\ LoadIdle
  /\ JsonIdle
  /\ SampleIdle
  /\ PickIdle
  /\ CountIdle
  /\ StoreIdle
FNext == FilterStep \/ FilterDownload
SpecFilter == FInit /\ [][FNext]_vars

NInit ==
  /\ NormInit
  /\ BatchIdle /\ SingleIdle /\ QardIdle /\ ActIdle /\ LimIdle /\ AuthIdle /\ PageIdle
  /\ FilterIdle
  /\ LoadIdle
  /\ JsonIdle
  /\ SampleIdle
  /\ PickIdle
  /\ CountIdle
  /\ StoreIdle
NNext == NNormalize \/ NNorm
SpecNormalize == NInit /\ [][NNext]_vars

RInit ==
  /\ LoadInit
  /\ BatchIdle /\ SingleIdle /\ QardIdle /\ ActIdle /\ LimIdle /\ AuthIdle /\ PageIdle
  /\ FilterIdle /\ NormIdle
  /\ JsonIdle
  /\ SampleIdle
  /\ PickIdle
  /\ CountIdle
  /\ StoreIdle
RNext == LoadLine \/ LoadRequest
SpecLoader == RInit /\ [][RNext]_vars

JInit ==
  /\ JsonInit
  /\ BatchIdle /\ SingleIdle /\ QardIdle /\ ActIdle /\ LimIdle /\ AuthIdle /\ PageIdle
  /\ FilterIdle /\ NormIdle /\ LoadIdle
  /\ SampleIdle
  /\ PickIdle
  /\ CountIdle
  /\ StoreIdle
JNext == JDownload \/ JWrite
SpecJson == JInit /\ [][JNext]_vars

GInit ==
  /\ SampleInit
  /\ BatchIdle /\ SingleIdle /\ QardIdle /\ ActIdle /\ LimIdle /\ AuthIdle /\ PageIdle
  /\ FilterIdle /\ NormIdle /\ LoadIdle /\ JsonIdle
  /\ PickIdle
  /\ CountIdle
  /\ StoreIdle
GNext == GRaise \/ GDraw \/ GReturn
SpecSample == GInit /\ [][GNext]_vars

KInit ==
  /\ PickInit
  /\ BatchIdle /\ SingleIdle /\ QardIdle /\ ActIdle /\ LimIdle /\ AuthIdle /\ PageIdle
  /\ FilterIdle /\ NormIdle /\ LoadIdle /\ JsonIdle /\ SampleIdle
  /\ CountIdle
  /\ StoreIdle
KNext == PickStep \/ PickDownload
SpecPick == KInit /\ [][KNext]_vars

CInit ==
  /\ CountInit
  /\ BatchIdle /\ SingleIdle /\ QardIdle /\ ActIdle /\ LimIdle /\ AuthIdle /\ PageIdle
  /\ FilterIdle /\ NormIdle /\ LoadIdle /\ JsonIdle /\ SampleIdle /\ PickIdle
  /\ StoreIdle
CNext == CountList \/ CountDownload
SpecCount == CInit /\ [][CNext]_vars

UInit ==
  /\ StoreInit
  /\ BatchIdle /\ SingleIdle /\ QardIdle /\ ActIdle /\ LimIdle /\ AuthIdle /\ PageIdle
  /\ FilterIdle /\ NormIdle /\ LoadIdle /\ JsonIdle /\ SampleIdle /\ PickIdle /\ CountIdle
UNext == UGetToken \/ UProbe \/ UFetch \/ UDownload
SpecStore == UInit /\ [][UNext]_vars

(***************************************************************************)
(* Properties.                                                             *)
(***************************************************************************)
Last(q) == q[Len(q)]
Transient == {"5xx", "ConnectionError", "RequestException"}

\* C1: in main_pdf_2.py, once any GET of the run (probe, listing, download)
\* was answered 429, the process has ended with exit status 2 and no GET or
\* login was issued after the 429.
C1_QuotaHaltsRun ==
  hist.quota => /\ pc = "done"
                /\ exitStatus = 2
                /\ ~hist.netAfterQuota

\* a download was answered 429 while a further SIREN was still to be processed
C1_Witness ==
  /\ hist.quota /\ call.kind = "download" /\ call.result = "stop"
  /\ idx < sirens

\* C2: in main_pdf_2.py, one call of fetch_attachments or download_acte
\* issues at most one login, whatever the server answers.
C2_OneReloginPerCall == call.logins <= 1

\* C3: in main_pdf_2.py, when a call of fetch_attachments or download_acte
\* has returned, every successful re-login of the call was followed by one
\* more GET of the call.
C3_RetryAfterRelogin == call.result \in {"ok", "fail"} => ~call.pending

\* C4: in main_pdf_2.py, a call never issues more than max_attempts GETs;
\* a call answered 5xx, 5xx, 5xx, 200 sleeps exactly three times, with the
\* base delays 8, 20, 45 (download) or 3, 8, 20 (listing), succeeds, and a
\* download saves exactly one file.
C4_BackoffAndCeiling ==
  /\ Len(call.resps) <= max_attempts
  /\ call.resps = <<"5xx", "5xx", "5xx", "200">> =>
       /\ call.result = "ok"
       /\ call.logins = 0
       /\ call.kind = "download" => call.sleeps = <<8, 20, 45>> /\ call.saves = 1
       /\ call.kind = "fetch" => call.sleeps = <<3, 8, 20>>

\* a download was answered 5xx three times and then 200
C4_Witness ==
  /\ call.kind = "download"
  /\ call.resps = <<"5xx", "5xx", "5xx", "200">>
  /\ call.saves = 1

\* C5: in main_pdf_2.py, every GET issued after a successful
\* re-authentication carries the token that re-authentication returned.
C5_FreshTokenUsed ==
  (hist.freshTok # None /\ hist.reqSinceLogin) => hist.reqTok = hist.freshTok

\* C6: in main_pdf.py / main_pdf_json.py, every GET issued after a
\* successful re-login carries the token that re-login returned.
C6_NoStaleToken ==
  (s_hist.freshTok # None /\ s_hist.reqSinceLogin) => s_hist.reqTok = s_hist.freshTok

\* C7: in main_pdf_2.py, once a login has failed the run is over and no GET
\* or login is issued afterwards.
C7_AbortOnLoginFailure ==
  hist.loginFailed => pc = "done" /\ ~hist.netAfterLoginFail

\* the step just received resp as the answer of a listing or download
C8_Answered(R) ==
  /\ pc \in {"fetch", "download"}
  /\ call'.resps # << >>
  /\ Last(call'.resps) \in R

\* what a step that fails one item only does: the call returns failure, no
\* login is made, token file and credential stay as they were, and main()
\* goes on with the next acte or SIREN (it returns, with status 0, only
\* after the last SIREN)
C8_FailsItemOnly ==
  /\ call'.result = "fail"
  /\ call'.logins = (IF attempt = 1 THEN 0 ELSE call.logins)
  /\ store' = store /\ issued' = issued
  /\ token' = hist'.reqTok
  /\ pc' = "done" => (idx = sirens /\ exitStatus' = 0)
  /\ (pc = "fetch" /\ idx < sirens) => (pc' = "fetch" /\ idx' = idx + 1)
  /\ (pc = "download" /\ docsLeft > 1) => (pc' = "download" /\ idx' = idx)
  /\ (pc = "download" /\ docsLeft = 1 /\ idx < sirens) => (pc' = "fetch" /\ idx' = idx + 1)

\* C8: in main_pdf_2.py, a 403 on a listing or download, or a transient
\* error at the last attempt, fails that item only; the loop of main() ends
\* before the last SIREN was listed only by a 429.
C8_ItemFailureOnly ==
  /\ [][(C8_Answered({"403"}) \/ (C8_Answered(Transient) /\ attempt = max_attempts))
          => C8_FailsItemOnly]_vars
  /\ []((pc = "done" /\ hist.listed >= 1 /\ hist.listed < sirens)
          => (hist.quota /\ exitStatus = 2))

\* the listing of the first SIREN was answered 403 and main() is about to
\* list the second one
C8_Witness ==
  /\ call.kind = "fetch" /\ call.resps # << >> /\ Last(call.resps) = "403"
  /\ call.result = "fail"
  /\ pc = "fetch" /\ idx = 2 /\ hist.listed = 1

\* C9: in qard_bulk_download.py, once a call of the batch was answered 429
\* the process has ended with a non-zero exit status and no request was
\* issued after the 429.
C9_QuotaHaltsQard ==
  q_hist.quota => /\ q_pc = "done"
                  /\ q_exit > 0
                  /\ ~q_hist.netAfterQuota

\* C10: in main_pdf.py / main_pdf_json.py, one top-level call of
\* fetch_attachments or of the download function issues at most one login.
C10_BoundedReauth == s_call.logins <= 1


\* C11: in main_pdf_2.py, when the run was stopped by a 429 the totals were
\* printed before the process ended.
C11_SummaryOnQuotaStop == (pc = "done" /\ hist.quota) => summary

\* main() of main_pdf_2.py ended on a configuration error: no valid SIREN
\* (file missing or without valid line) or no credential before the loop
C12_ConfigError ==
  sirens = 0 \/ (hist.listed = 0 /\ token = None /\ ~hist.quota)

\* C12: main_pdf_2.py ends with status 0 on normal completion, with a
\* non-zero status after a 429 and with another non-zero status on a
\* configuration error.
C12_ExitStatuses ==
  pc = "done" =>
    IF hist.quota THEN exitStatus = 2
    ELSE IF C12_ConfigError THEN exitStatus \notin {0, 2}
    ELSE exitStatus = 0

\* C13: a batch script started without its input file or without API key
\* issues no request: main_pdf_2.py without SIREN file, qard_bulk_download.py
\* without SIREN file or API key, qard_download_from_act_id.py without CSV.
C13_NoRequestOnConfigError ==
  /\ (pc # "idle" /\ sirens_file = "missing") => ~hist.net
  /\ (q_pc # "idle" /\ (q_file = "missing" \/ ~q_key)) => ~q_hist.net
  /\ (a_pc # "idle" /\ a_csv = "missing") => ~a_net


\* C14 as stated: any two successive returns of wait() on one RateLimiter
\* are at least min_interval apart, for one caller and for two threads.
C14_ReturnsSpaced == l_gapRet # -1 => l_gapRet >= min_interval(l_rpm)

\* C14: the timestamps recorded in last_ts by any two successive calls of
\* wait() on one RateLimiter are at least min_interval apart, and no call
\* returns before the timestamp it recorded, for one caller and for two
\* threads sharing the instance.
C14_AdmissionsSpaced ==
  /\ l_gapAdm # -1 => l_gapAdm >= min_interval(l_rpm)
  /\ l_count >= 1 => l_lastRet >= l_last_ts

\* a call of wait() slept behind the call of another thread and returned
C14_Witness ==
  /\ l_count >= 2
  /\ l_gapAdm > 0
  /\ l_last_ts > l_lastRet - l_gapRet
  /\ l_pc[1] = "in" /\ l_lock = 1


\* C15 as stated: load_token returns the token passed to the latest
\* save_token when no clear_token followed it, and None when no token was
\* ever saved or the latest mutating operation was clear_token.
C15_LoadReturnsSaved == t_op = "load" => t_loaded = t_saved

\* text is core with whitespace, and nothing else, added on both sides
IsStripOf(core, text) ==
  /\ core = << >> \/ (core[1] \notin Whitespace /\ core[Len(core)] \notin Whitespace)
  /\ \E i \in 0..Len(text) :
       /\ i + Len(core) <= Len(text)
       /\ SubSeq(text, i + 1, i + Len(core)) = core
       /\ \A k \in 1..Len(text) :
            (k <= i \/ k > i + Len(core)) => text[k] \in Whitespace

\* C15: load_token returns the token passed to the latest save_token without
\* its leading and trailing whitespace (the token itself when it has none)
\* when no clear_token followed it, and None when no token was ever saved or
\* the latest mutating operation was clear_token.
C15_LoadReturnsStripped ==
  t_op = "load" =>
    IF t_saved = {} THEN t_loaded = {}
    ELSE \E core \in t_loaded, text \in t_saved :
           /\ t_loaded = {core}
           /\ IsStripOf(core, text)
           /\ (IsStripOf(text, text) => core = text)

\* a token with whitespace on its right side was saved and then loaded
C15_Witness ==
  /\ t_op = "load"
  /\ \E text \in t_saved :
       Len(text) = 2 /\ text[1] \notin Whitespace /\ text[2] \in Whitespace
  /\ t_loaded # t_saved

\* C16: login() of the INPI downloaders returns a non-empty token or None for
\* every outcome of the login call and never raises.
C16_LoginNeverRaises == t_login.outcome \in {"-", "token", "None"}


\* the items 1..n in order
UpTo(n) == [i \in 1..n |-> i]

\* C17: against an enveloped endpoint of N pages with consistent counters
\* iter_pages yields exactly the items of all pages, each once and in the
\* original order, and issues exactly N requests, none for page N + 1;
\* against a bare list it yields every element in order after one request.
C17_PagesExact ==
  /\ (p_server.mode = "envelope" /\ p_pc \in {"run", "done"}) =>
        /\ p_page <= p_server.last
        /\ p_reqs <= p_server.last
        /\ p_pc = "done" =>
              /\ p_yield = UpTo(p_server.total)
              /\ p_reqs = p_server.last
  /\ (p_server.mode = "bare" /\ p_pc = "done") =>
        /\ p_yield = UpTo(p_server.total)
        /\ p_reqs = 1

\* 3 pages of size 2 holding 5 items were read to the end
C17_Witness ==
  /\ p_server.mode = "envelope" /\ p_server.total = 5 /\ p_server.size = 2
  /\ p_server.last = 3
  /\ p_pc = "done" /\ p_reqs = 3 /\ p_yield = <<1, 2, 3, 4, 5>>

\* C18: for every behaviour of the server iter_pages terminates after
\* finitely many page requests.
C18_Terminates == <>(p_pc = "done")


\* the acte at position k is not deleted and public
NotDeletedPublic(acte) ==
  /\ ~acte.deleted
  /\ \A conf \in acte.confidentiality :
       conf.isstr /\ conf.text \in {ConfPublic, lower(ConfPublic)}

\* position k was appended to filtered
Kept(k) == \E j \in 1..Len(f_filtered) : f_filtered[j] = k

\* C19: filter_actes of main_pdf_2.py keeps a non-deleted, public document if
\* and only if one of its typeRdd labels, normalized, contains an allow-list
\* fragment: the label ATTESTATION BANCAIRE DU 01/01/2024 is kept, a sole
\* label statuts modificatifs and a document without label are dropped; the
\* kept documents are a subsequence of the input in the same order.
C19_FilterKeepsAllowed ==
  f_variant = "main_pdf_2" =>
    /\ \A k \in 1..f_i :
         NotDeletedPublic(f_actes[k]) =>
           /\ Kept(k) <=>
                \E n \in 1..Len(f_actes[k].typeRdd), a \in 1..Len(allowed_types) :
                   Contains(normalize(f_actes[k].typeRdd[n]), allowed_types[a])
           /\ f_actes[k].typeRdd = <<LabelAttestationDated>> => Kept(k)
           /\ f_actes[k].typeRdd = <<LabelDepotAccented>> => Kept(k)
           /\ f_actes[k].typeRdd = <<LabelStatutsModificatifs>> => ~Kept(k)
           /\ f_actes[k].typeRdd = << >> => ~Kept(k)
    /\ \A j \in 1..Len(f_filtered) : f_filtered[j] \in 1..f_i
    /\ \A j \in 1..(Len(f_filtered) - 1) : f_filtered[j] < f_filtered[j + 1]

\* a dated bank attestation was kept after a dropped statuts modificatifs
C19_Witness ==
  /\ f_variant = "main_pdf_2"
  /\ Len(f_actes) = 2 /\ f_i = 2
  /\ NotDeletedPublic(f_actes[1]) /\ f_actes[1].typeRdd = <<LabelStatutsModificatifs>>
  /\ NotDeletedPublic(f_actes[2]) /\ f_actes[2].typeRdd = <<LabelAttestationDated>>
  /\ f_filtered = <<2>>

\* C20: in every variant a document flagged deleted is excluded by
\* filter_actes whatever its labels and is never downloaded.
C20_DeletedExcluded ==
  /\ \A j \in 1..Len(f_filtered) : ~f_actes[f_filtered[j]].deleted
  /\ \A j \in 1..Len(f_downloaded) : ~f_actes[f_downloaded[j]].deleted


\* C21: filter_actes of main_pdf_2.py excludes every document whose
\* confidentiality is present and not public, whatever the form of the value:
\* a kept document has no confidentiality or the value public.
C21_NonPublicExcluded ==
  f_variant = "main_pdf_2" =>
    \A j \in 1..Len(f_filtered) :
      \A conf \in f_actes[f_filtered[j]].confidentiality :
        conf.isstr /\ lower(conf.text) = lower(ConfPublic)


\* the letter a character stands for, whatever its case and its diacritics
LetterOf(c) ==
  CASE c \in {"e", "E", "e-acute", "E-acute", "e-grave"} -> "e"
    [] c \in {"a", "A"} -> "a"
    [] c \in {"oe-ligature", "OE-ligature"} -> "oe-ligature"
    [] OTHER -> c

\* x and y differ at most in letter case and in diacritics
SameLetters(x, y) ==
  /\ Len(x) = Len(y)
  /\ \A k \in 1..Len(x) : LetterOf(x[k]) = LetterOf(y[k])

\* C22: normalize and norm are idempotent, and map two texts that differ only
\* in letter case or in diacritics to the same result.
C22_IdempotentCaseAccent ==
  n_pc = "done" =>
    /\ n_out.xx = n_out.x
    /\ SameLetters(n_x, n_y) => n_out.x = n_out.y

\* norm was applied to two different texts with the same letters
C22_Witness ==
  /\ n_pc = "done" /\ n_out.f = "norm"
  /\ n_x = <<"E-acute", "OE-ligature">> /\ n_y = <<"e", "oe-ligature">>
  /\ n_out.x = <<"e", "oe-ligature">> /\ n_out.y = n_out.x

\* the words of text: its parts between whitespace
RECURSIVE SplitWords(_, _)
SplitWords(text, word) ==
  LET sofar == IF word = << >> THEN << >> ELSE <<word>>
  IN  IF text = << >> THEN sofar
      ELSE IF Head(text) \in SpaceChars THEN sofar \o SplitWords(Tail(text), << >>)
      ELSE SplitWords(Tail(text), Append(word, Head(text)))

\* C23: normalize collapses whitespace: two labels that differ only in the
\* amount of whitespace between or around the words normalize to the same
\* text.
C23_WhitespaceCollapsed ==
  (n_pc = "done" /\ n_out.f = "normalize"
     /\ SplitWords(n_x, << >>) = SplitWords(n_y, << >>)) => n_out.x = n_out.y


\* text is a string of nine digits
NineDigits(text) ==
  /\ Len(text) = 9
  /\ \A k \in 1..Len(text) :
       text[k] \in {"0", "1", "2", "3", "4", "5", "6", "7", "8", "9"}

\* C24: in every batch script the loader keeps only the lines that are
\* 9-digit numeric strings, so every identifier a request is issued for is a
\* 9-digit numeric string.
C24_OnlyNineDigits ==
  /\ \A k \in 1..Len(r_sirens) : NineDigits(r_sirens[k])
  /\ \A k \in 1..Len(r_requested) : NineDigits(r_requested[k])


\* C25: the JSON array written by main_pdf_json.py holds one entry per
\* filtered document whose download succeeded, in listing order, and every
\* entry holds siren, typeActe, id and document_base64.
C25_EntriesHoldPayload ==
  \A out \in j_file :
    /\ Len(out) = Cardinality({k \in 1..Len(j_results) : j_results[k] \notin {"None", ""}})
    /\ \A k \in 1..(Len(out) - 1) : out[k].id < out[k + 1].id
    /\ \A k \in 1..Len(out) :
         {"siren", "typeActe", "id", "document_base64"} \subseteq DOMAIN out[k]


\* C26: in main_pdf_2.py a login is issued and the stored token cleared only
\* when no token is stored at start or in response to a 401: a call that
\* issued a login was answered 401.
C26_LoginOn401Only ==
  call.logins > 0 => \E k \in 1..Len(call.resps) : call.resps[k] = "401"


\* the Luhn sum of the 9 digits of n: every second digit from the right
\* doubled (minus 9 above 9)
LuhnSum(n) ==
  LET dig(i) == (n \div (10 ^ i)) % 10
      term(i) == IF i % 2 = 1
                   THEN (IF 2 * dig(i) > 9 THEN 2 * dig(i) - 9 ELSE 2 * dig(i))
                   ELSE dig(i)
  IN  term(0) + term(1) + term(2) + term(3) + term(4) + term(5) + term(6) + term(7)
      + term(8)

\* C27: every SIREN built by make_siren_from_prefix8 satisfies the Luhn
\* checksum, and sample_valid_sirens_in_range(start, end, k), when it
\* returns, returns exactly k pairwise-distinct such SIRENs within
\* [start, end].
C27_LuhnSample ==
  /\ \A k \in 1..Len(g_out) : LuhnSum(g_out[k]) % 10 = 0
  /\ g_pc = "returned" =>
       /\ Len(g_out) = g_k
       /\ \A a, b \in 1..Len(g_out) : a # b => g_out[a] # g_out[b]
       /\ \A a \in 1..Len(g_out) : g_start <= g_out[a] /\ g_out[a] <= g_end

\* two SIRENs were sampled and returned
C27_Witness ==
  /\ g_pc = "returned" /\ g_k = 2 /\ Len(g_out) = 2
  /\ g_start = RANGE_START


\* C28: every (file_id, datatype) pair returned by pick_files, hence every
\* file the batch downloads, has a datatype of ALLOWED_DATATYPES, for every
\* file list, descriptors without datatype included.
C28_ChosenAllowed ==
  /\ \A k \in 1..Len(k_chosen) : k_chosen[k].dtype \in ALLOWED_DATATYPES
  /\ \A k \in 1..Len(k_downloaded) : k_downloaded[k].dtype \in ALLOWED_DATATYPES

\* C29: in main() of main_pdf_2.py total_downloaded equals the number of
\* documents downloaded and saved during this run (a failed or skipped
\* download never increments it), and it never exceeds total_found.
C29_DownloadedCountsSaved ==
  /\ total_downloaded = c_saved
  /\ total_downloaded <= total_found

\* C30 as stated: at every GET of main_pdf_2.py the token file is absent or
\* its content equals the token the request carries.
C30_StoreEqualsTokenInUse ==
  u_req.sent => (u_req.file = {} \/ u_req.file = u_req.tok)

\* C30, amended: at every GET of main_pdf_2.py the token file is absent, or
\* its content equals the token the request carries, or its content with the
\* surrounding whitespace stripped equals it (the token was read from the
\* file by load_token).
C30_StoreMatchesTokenInUse ==
  u_req.sent => \/ u_req.file = {}
                \/ u_req.file = u_req.tok
                \/ {strip(content) : content \in u_req.file} = u_req.tok

\* a download of the last SIREN is requested with a token read from a token
\* file that holds it with surrounding whitespace
C30_Witness ==
  /\ u_pc = "download" /\ u_req.sent
  /\ u_req.file # {} /\ u_req.file # u_req.tok
  /\ u_idx = MaxSirens

====
